---- MODULE Spec2Model ----
(***************************************************************************)
(* A model of the train / evaluate / report workflow of the notebooks:    *)
(*   digits    (DecisionTreeClassifier on load_digits)                    *)
(*   mushroom  (StandardScaler, PCA, DecisionTreeClassifier, GridSearchCV)*)
(*   wine      (StandardScaler, GradientBoostingClassifier, GridSearchCV) *)
(*   banking   (GradientBoostingClassifier)                               *)
(*   regression(LinearRegression, RFE, KFold, GridSearchCV)               *)
(*   adult     (get_dummies, three tree classifiers)                      *)
(* The notebooks are sequences of library calls.  Each call is modelled   *)
(* by what the called routine does to the rows, columns and counters the  *)
(* notebook can observe; the numeric content of a fitted estimator is     *)
(* opaque (the "Fitted Model State" of the data model).                   *)
(*                                                                         *)
(* A row of a table is named by its position 0..n-1 in the loaded table   *)
(* (the pandas index the loader assigns).                                 *)
(***************************************************************************)
EXTENDS Integers, Sequences, FiniteSets, TLC

(***************************************************************************)
(* Bounds of the model.                                                   *)
(***************************************************************************)
MaxRows == 5      \* largest table handed to the Splitter on its own
MaxDen == 5       \* split fractions are p/q with 2 <= q <= MaxDen
MaxEval == 3      \* longest pair of label vectors handed to the Evaluator
MaxClass == 2     \* class labels are 0..MaxClass
MaxGrid == 2      \* candidates of a search other than the wine notebook's
MaxFolds == 2     \* folds of a search other than the wine notebook's

(***************************************************************************)
(* Helpers on sequences and numbers.                                      *)
(***************************************************************************)
Range(s) == {s[i] : i \in DOMAIN s}

IsPermutationOf(s, S) == Len(s) = Cardinality(S) /\ Range(s) = S

\* every ordering of the rows 0..n-1: the values numpy's
\* RandomState.permutation(n) can return
Permutations0(n) ==
    {p \in [1..n -> 0..(n - 1)] : \A i, j \in 1..n : i # j => p[i] # p[j]}

\* math.ceil(p * n / q) for non-negative integers
CeilDiv(a, b) == (a + b - 1) \div b

\* Python's round() of the rational a / b: to nearest, ties to even
RoundHalfEven(a, b) ==
    LET fl == a \div b
        twice == 2 * (a % b)
    IN  IF twice < b THEN fl
        ELSE IF twice > b THEN fl + 1
        ELSE IF fl % 2 = 0 THEN fl ELSE fl + 1

Abs(x) == IF x < 0 THEN -x ELSE x

(***************************************************************************)
(* The Splitter: sklearn.model_selection.train_test_split as the          *)
(* notebooks call it (test_size a float, train_size left out, shuffle     *)
(* on).  A fraction is the pair <<p, q>> standing for p / q.              *)
(***************************************************************************)
TestSizes == {<<p, q>> : p \in 1..(MaxDen - 1), q \in 2..MaxDen} \cap
             {f \in (1..MaxDen) \X (2..MaxDen) : f[1] < f[2]}

\* fractions a caller may pass, those outside (0, 1) among them
SplitFractions ==
    TestSizes \cup {<<p, q>> : p \in {-1, 0}, q \in 2..MaxDen}
              \cup {f \in (2..(MaxDen + 1)) \X (2..MaxDen) :
                        f[1] \in {f[2], f[2] + 1}}

\* a slip: the interval taken closed
ValidFraction_closed(f) == 0 <= f[1] /\ f[1] <= f[2]

\* test_size as a float must lie in the open interval (0, 1); any other
\* float is refused with InvalidParameterError
ValidFraction(f) == 0 < f[1] /\ f[1] < f[2]

\* n_test = ceil(test_size * n_samples)
NTest(n, f) == CeilDiv(f[1] * n, f[2])

\* n_train = n_samples - n_test when train_size is not given
NTrain(n, f) == n - NTest(n, f)

\* train_test_split without stratify: permutation = rng.permutation(n);
\* test = permutation[:n_test]; train = permutation[n_test:n_test+n_train].
\* An empty train set is refused with a ValueError.
NoSplit == [status |-> "none", train |-> <<>>, test |-> <<>>]

\* a slip in the slice bounds: the train slice starts one element early
TrainTestSplit_overlap(n, f, perm) ==
    IF NTrain(n, f) = 0
    THEN [status |-> "ValueError", train |-> <<>>, test |-> <<>>]
    ELSE [status |-> "ok",
          train |-> SubSeq(perm, NTest(n, f), NTest(n, f) + NTrain(n, f)),
          test |-> SubSeq(perm, 1, NTest(n, f))]

TrainTestSplit(n, f, perm) ==
    IF ~ValidFraction(f)
    THEN [status |-> "InvalidParameter", train |-> <<>>, test |-> <<>>]
    ELSE IF NTrain(n, f) = 0
    THEN [status |-> "ValueError", train |-> <<>>, test |-> <<>>]
    ELSE [status |-> "ok",
          train |-> SubSeq(perm, NTest(n, f) + 1, NTest(n, f) + NTrain(n, f)),
          test |-> SubSeq(perm, 1, NTest(n, f))]

(***************************************************************************)
(* The Evaluator: sklearn.metrics.confusion_matrix and                    *)
(* classification_report on a pair (true labels, predicted labels).       *)
(* Class labels are the integers 0..MaxClass.  A reported ratio is the    *)
(* pair <<numerator, denominator>> with denominator > 0.                  *)
(***************************************************************************)
Classes == 0..MaxClass

LabelVectors(n) == [1..n -> Classes]

\* a slip: the label list is taken from the true labels alone
UniqueLabels_trueOnly(yt, yp) == Range(yt)

\* unique_labels(y_true, y_pred): the labels that occur in either vector
\* (confusion_matrix and classification_report list them in sorted order;
\* class c is row and column c of the functions below)
UniqueLabels(yt, yp) == Range(yt) \cup Range(yp)

\* confusion_matrix(y_true, y_pred): cell [i][j] counts the samples whose
\* true label is i and whose predicted label is j, over the listed labels
ConfusionMatrix(yt, yp) ==
    LET labels == UniqueLabels(yt, yp)
    IN  [i \in labels |-> [j \in labels |->
            Cardinality({k \in DOMAIN yt : yt[k] = i /\ yp[k] = j})]]

\* the labels of y_true followed by y_pred, each at its first occurrence
FirstAppearance(yt, yp) ==
    LET all == yt \o yp
        firsts == {k \in DOMAIN all : \A m \in 1..(k - 1) : all[m] # all[k]}
    IN  [i \in 1..Cardinality(firsts) |->
            all[CHOOSE k \in firsts :
                   Cardinality({m \in firsts : m < k}) = i - 1]]

\* a slip: the labels listed from the largest down
SortedLabels_descending(S) ==
    CHOOSE q \in [1..Cardinality(S) -> S] :
        /\ Range(q) = S
        /\ \A i, j \in DOMAIN q : i < j => q[i] > q[j]

\* np.unique over the labels: each once, in ascending order
SortedLabels(S) ==
    CHOOSE q \in [1..Cardinality(S) -> S] :
        /\ Range(q) = S
        /\ \A i, j \in DOMAIN q : i < j => q[i] < q[j]

\* the array confusion_matrix returns: row i and column i stand for the
\* i-th listed label
CmArray(yt, yp) ==
    LET labels == SortedLabels(UniqueLabels(yt, yp))
    IN  [i \in DOMAIN labels |-> [j \in DOMAIN labels |->
            ConfusionMatrix(yt, yp)[labels[i]][labels[j]]]]

RECURSIVE SumOver(_, _)
SumOver(f, S) ==
    IF S = {} THEN 0
    ELSE LET x == CHOOSE x \in S : TRUE
         IN  f[x] + SumOver(f, S \ {x})

RowSum(cm, i) == SumOver(cm[i], DOMAIN cm[i])

ColSum(cm, j) == SumOver([i \in DOMAIN cm |-> cm[i][j]], DOMAIN cm)

CellSum(cm) == SumOver([i \in DOMAIN cm |-> RowSum(cm, i)], DOMAIN cm)

\* _prf_divide with zero_division="warn": the ratio, and 0 (with an
\* UndefinedMetricWarning) where the denominator is 0
PrfDivide(num, den) == IF den = 0 THEN <<0, 1>> ELSE <<num, den>>

\* f-score for beta = 1 from precision p and recall r:
\* denom = p + r; denom[denom == 0] = 1; f = 2 * p * r / denom
FScore(p, r) ==
    LET denom == p[1] * r[2] + r[1] * p[2]
    IN  IF denom = 0 THEN <<0, 1>> ELSE <<2 * p[1] * r[1], denom>>

\* a slip: precision divided by the true count (the recall denominator)
Precision_byTrueSum(cm, c) == PrfDivide(cm[c][c], RowSum(cm, c))

\* precision = tp_sum / pred_sum
Precision(cm, c) == PrfDivide(cm[c][c], ColSum(cm, c))

\* recall = tp_sum / true_sum
Recall(cm, c) == PrfDivide(cm[c][c], RowSum(cm, c))

\* classification_report(y_true, y_pred): one line per listed label
ClassificationReport(yt, yp) ==
    LET cm == ConfusionMatrix(yt, yp)
    IN  [c \in DOMAIN cm |->
            [precision |-> Precision(cm, c),
             recall |-> Recall(cm, c),
             f1 |-> FScore(Precision(cm, c), Recall(cm, c)),
             support |-> RowSum(cm, c)]]

NoValue == [status |-> "none"]

(***************************************************************************)
(* The Splitter on tables of the notebooks.  In the notebook runs a       *)
(* table is the set of original rows it holds, so a split is the pair of  *)
(* row sets (train, test); the order of the rows inside each is the       *)
(* subject of TrainTestSplit above.                                       *)
(***************************************************************************)
KSubsets(S, k) == {T \in SUBSET S : Cardinality(T) = k}

\* train_test_split(X, y, test_size=f, random_state=seed) over the rows
\* `rows`: every outcome some permutation yields
TrainTestSplitRows(rows, f) ==
    LET n == Cardinality(rows)
    IN  IF ~ValidFraction(f)
        THEN {[status |-> "InvalidParameter", train |-> {}, test |-> {}]}
        ELSE IF NTrain(n, f) = 0
        THEN {[status |-> "ValueError", train |-> {}, test |-> {}]}
        ELSE {[status |-> "ok", train |-> rows \ T, test |-> T] :
                 T \in KSubsets(rows, NTest(n, f))}

RowsOfClass(rows, y, c) == {r \in rows : y[r] = c}

ClassesOf(rows, y) == {y[r] : r \in rows}

\* _approximate_mode(class_counts, n_draws, rng): floor of the
\* proportional share of each class, the missing draws handed out by
\* decreasing remainder, ties between equal remainders broken at random
\* a slip: the draws shared out evenly, whatever the class sizes
ApproximateMode_even(counts, n_draws) ==
    LET cls == DOMAIN counts
        k == Cardinality(cls)
    IN  {a \in [cls -> 0..n_draws] :
            /\ \A c \in cls : a[c] \in {n_draws \div k, n_draws \div k + 1}
            /\ SumOver(a, cls) = n_draws}

ApproximateMode(counts, n_draws) ==
    LET cls == DOMAIN counts
        total == SumOver(counts, cls)
        floored == [c \in cls |-> (counts[c] * n_draws) \div total]
        rem == [c \in cls |-> (counts[c] * n_draws) % total]
    IN  {a \in [cls -> 0..n_draws] :
            /\ \A c \in cls : a[c] \in {floored[c], floored[c] + 1}
            /\ SumOver(a, cls) = n_draws
            /\ \A c, d \in cls :
                  (a[c] = floored[c] + 1 /\ a[d] = floored[d])
                      => rem[c] >= rem[d]}

\* train_test_split(..., stratify=labels): StratifiedShuffleSplit.  Each
\* class hands n_i of its rows to train and the rest to test.
StratifiedSplitRows(rows, y, f) ==
    LET n == Cardinality(rows)
        cls == ClassesOf(rows, y)
        counts == [c \in cls |-> Cardinality(RowsOfClass(rows, y, c))]
        failure == {[status |-> "ValueError", train |-> {}, test |-> {}]}
    IN  IF ~ValidFraction(f)
        THEN {[status |-> "InvalidParameter", train |-> {}, test |-> {}]}
        ELSE IF NTrain(n, f) = 0 THEN failure
        ELSE IF \E c \in cls : counts[c] < 2 THEN failure
        ELSE IF NTrain(n, f) < Cardinality(cls) THEN failure
        ELSE IF NTest(n, f) < Cardinality(cls) THEN failure
        ELSE {[status |-> "ok", train |-> tr, test |-> rows \ tr] :
                 tr \in {t \in SUBSET rows :
                           \E a \in ApproximateMode(counts, NTrain(n, f)) :
                              \A c \in cls :
                                 Cardinality(RowsOfClass(t, y, c)) = a[c]}}

(***************************************************************************)
(* The notebooks as cell sequences.  A statement is a record              *)
(*   op    what the call does (one action of SpecNb per op)               *)
(*   line  where it is in the notebook's file                             *)
(*   src   the variables it reads, dst the variables it assigns           *)
(*   obj   the preprocessor / estimator object it is called on, or the    *)
(*         pandas / numpy call of a Derive, or the category of a Filter   *)
(*   seed, f, strat   random_state, test_size, stratify of a split        *)
(*   cv    fold count of a cross-validated call                           *)
(*   cols  the column labels a Derive names; name, the new label of a     *)
(*         rename or the class of a constructed object                    *)
(*   est   the estimator a constructor or a search is handed              *)
(*   params, grid   keyword arguments of a constructor, points of a grid  *)
(***************************************************************************)
StmtDefaults ==
    [seed |-> 0, f |-> <<1, 2>>, strat |-> "", cv |-> 0, cols |-> {},
     name |-> "", est |-> "", params |-> <<>>, grid |-> {}]

Stmt(op, line, obj, src, dst) ==
    [op |-> op, line |-> line, obj |-> obj, src |-> src, dst |-> dst]
        @@ StmtDefaults

SplitStmt(line, src, dst, seed, f, strat) ==
    [op |-> "Split", line |-> line, obj |-> "", src |-> src, dst |-> dst,
     seed |-> seed, f |-> f, strat |-> strat] @@ StmtDefaults

CvStmt(op, line, obj, src, cv) ==
    [op |-> op, line |-> line, obj |-> obj, src |-> src, dst |-> <<>>,
     est |-> obj, cv |-> cv] @@ StmtDefaults

\* obj.fit(X, y) of a GridSearchCV(estimator=est, param_grid=grid, cv=cv)
SearchStmt(line, obj, est, src, cv, grid) ==
    [op |-> "Search", line |-> line, obj |-> obj, src |-> src, dst |-> <<>>,
     est |-> est, cv |-> cv, grid |-> grid] @@ StmtDefaults

\* a pandas / numpy call that names columns: drop, [...], iloc, get_dummies
ColStmt(line, obj, src, dst, cols) ==
    [op |-> "Derive", line |-> line, obj |-> obj, src |-> src, dst |-> dst,
     cols |-> cols] @@ StmtDefaults

\* df.rename(columns={old: new}, inplace=True)
RenameStmt(line, df, old, new) ==
    [op |-> "Derive", line |-> line, obj |-> "rename_inplace",
     src |-> <<df>>, dst |-> <<df>>, cols |-> {old}, name |-> new]
        @@ StmtDefaults

\* warnings.filterwarnings("ignore", category=...); category "" when the
\* call passes none
FilterStmt(line, category) ==
    [op |-> "Filter", line |-> line, obj |-> category, src |-> <<>>,
     dst |-> <<>>] @@ StmtDefaults

\* obj = Class(est, **params)
ConstructStmt(line, obj, class, est, params) ==
    [op |-> "Construct", line |-> line, obj |-> obj, src |-> <<>>,
     dst |-> <<>>, name |-> class, est |-> est, params |-> params]
        @@ StmtDefaults

\* series[label]: the element of a pandas Series at a row label
LookupStmt(line, series, label) ==
    [op |-> "Lookup", line |-> line, obj |-> "getitem", src |-> <<series>>,
     dst |-> <<>>, label |-> label] @@ StmtDefaults

\* the labels of the columns of an ndarray of k columns, and of the
\* DataFrame built from it: 0 .. k-1
PosCols(k) == {ToString(i) : i \in 0..(k - 1)}

\* ---- digits notebook
\* load_digits: 8x8 images, one column per pixel
DigitsFeatureCount == 64

DigitsNb == <<
    Stmt("Load", 101, "load_digits", <<>>, <<"x", "y">>),
    SplitStmt(146, <<"x", "y">>,
              <<"X_train", "X_test", "y_train", "y_test">>, 0, <<1, 5>>, ""),
    ConstructStmt(179, "dt", "DecisionTreeClassifier", "",
                  [max_depth |-> 5, min_samples_leaf |-> 1,
                   criterion |-> "gini"]),
    Stmt("Fit", 183, "dt", <<"X_train", "y_train">>, <<>>),
    Stmt("Predict", 215, "dt", <<"X_test">>, <<"y_pred">>),
    Stmt("Score", 247, "dt", <<"X_train", "y_train">>, <<>>),
    Stmt("Score", 256, "dt", <<"X_test", "y_test">>, <<>>),
    Stmt("Evaluate", 286, "confusion_matrix", <<"y_test", "y_pred">>, <<>>),
    Stmt("Evaluate", 324, "classification_report",
         <<"y_test", "y_pred">>, <<>>) >>

\* ---- mushroom notebook
\* cv = 3 of its GridSearchCV
MushroomCv == 3

\* pca=PCA(n_components=15)
PcaComponents == 15

\* columns of mushrooms.csv: those the notebook names, and two of the
\* other features standing for the rest
MushroomColumns == {"target", "veil-type", "cap-shape", "odor"}

\* a slip: the depth range starting at 0
MushroomGrid_depthFromZero ==
    {[criterion |-> c, max_depth |-> d, min_samples_leaf |-> m] :
        c \in {"gini", "entropy"}, d \in 0..4, m \in 1..4}

\* params: criterion x range(10, 15) x range(1, 5)
MushroomGrid ==
    {[criterion |-> c, max_depth |-> d, min_samples_leaf |-> m] :
        c \in {"gini", "entropy"}, d \in 10..14, m \in 1..4}

\* a slip: the second split seeded differently from the first
MushroomSplitPca_otherSeed ==
    SplitStmt(378, <<"X_pca", "y_pca">>,
              <<"X_train_pca", "X_test_pca", "y_train_pca", "y_test_pca">>,
              43, <<1, 5>>, "df")

MushroomSplitScaled ==
    SplitStmt(248, <<"df_X_scaled", "y">>,
              <<"X_train_scaled", "X_test_scaled", "y_train", "y_test">>,
              42, <<1, 5>>, "df_scaled")

MushroomSplitPca ==
    SplitStmt(378, <<"X_pca", "y_pca">>,
              <<"X_train_pca", "X_test_pca", "y_train_pca", "y_test_pca">>,
              42, <<1, 5>>, "df")

\* a slip: the whole frame, target column included, handed to transform
MushroomScale_wholeFrame ==
    Stmt("PrepTransform", 216, "scaler", <<"df">>, <<"X_scaled">>)

\* X_scaled=scaler.transform(df_X)
MushroomScale ==
    Stmt("PrepTransform", 216, "scaler", <<"df_X">>, <<"X_scaled">>)

MushroomNb == <<
    FilterStmt(40, "UserWarning"),
    FilterStmt(41, "FitFailedWarning"),
    Stmt("Load", 60, "read_csv", <<>>, <<"df">>),
    ColStmt(143, "drop", <<"df">>, <<"df">>, {"veil-type"}),
    ConstructStmt(213, "scaler", "StandardScaler", "", <<>>),
    ColStmt(214, "drop", <<"df">>, <<"df_X">>, {"target"}),
    Stmt("PrepFit", 215, "scaler", <<"df_X">>, <<>>),
    MushroomScale,
    Stmt("Derive", 226, "DataFrame", <<"X_scaled">>, <<"df_X_scaled">>),
    ColStmt(227, "getitem", <<"df">>, <<"y">>, {"target"}),
    Stmt("Derive", 228, "concat_columns", <<"df_X_scaled", "y">>,
         <<"df_scaled">>),
    MushroomSplitScaled,
    ConstructStmt(267, "dec_tree", "DecisionTreeClassifier", "",
                  [criterion |-> "gini", max_depth |-> 7]),
    Stmt("Fit", 279, "dec_tree", <<"X_train_scaled", "y_train">>, <<>>),
    Stmt("Predict", 280, "dec_tree", <<"X_test_scaled">>, <<"y_predict">>),
    Stmt("Evaluate", 290, "accuracy_score", <<"y_test", "y_predict">>, <<>>),
    Stmt("Evaluate", 291, "roc_auc_score", <<"y_test", "y_predict">>, <<>>),
    Stmt("Evaluate", 292, "f1_score", <<"y_test", "y_predict">>, <<>>),
    ConstructStmt(314, "pca", "PCA", "", [n_components |-> PcaComponents]),
    Stmt("PrepFit", 315, "pca", <<"X_scaled">>, <<>>),
    Stmt("PrepTransform", 316, "pca", <<"X_scaled">>, <<"X_pca">>),
    Stmt("Derive", 354, "DataFrame", <<"X_pca">>, <<"df_pca">>),
    ColStmt(355, "getitem", <<"df">>, <<"y_pca">>, {"target"}),
    Stmt("Derive", 356, "concat_columns", <<"df_pca", "y_pca">>,
         <<"df_pca">>),
    ColStmt(375, "drop", <<"df_pca">>, <<"X_pca">>, {"target"}),
    ColStmt(376, "getitem", <<"df_pca">>, <<"y_pca">>, {"target"}),
    MushroomSplitPca,
    ConstructStmt(397, "dec_tree_pca", "DecisionTreeClassifier", "",
                  [criterion |-> "gini", max_depth |-> 7]),
    Stmt("Fit", 409, "dec_tree_pca", <<"X_train_pca", "y_train_pca">>, <<>>),
    Stmt("Predict", 419, "dec_tree_pca", <<"X_test_pca">>,
         <<"y_predict_pca">>),
    Stmt("Evaluate", 437, "accuracy_score",
         <<"y_test_pca", "y_predict_pca">>, <<>>),
    Stmt("Evaluate", 438, "roc_auc_score",
         <<"y_test_pca", "y_predict_pca">>, <<>>),
    Stmt("Evaluate", 439, "f1_score",
         <<"y_test_pca", "y_predict_pca">>, <<>>),
    Stmt("Evaluate", 449, "classification_report",
         <<"y_test_pca", "y_predict_pca">>, <<>>),
    Stmt("Evaluate", 451, "confusion_matrix",
         <<"y_test_pca", "y_predict_pca">>, <<>>),
    Stmt("Score", 461, "dec_tree_pca", <<"X_test_pca", "y_test_pca">>, <<>>),
    ConstructStmt(495, "grid_estimator", "DecisionTreeClassifier", "", <<>>),
    SearchStmt(505, "grid", "grid_estimator",
               <<"X_train_pca", "y_train_pca">>, MushroomCv, MushroomGrid),
    ConstructStmt(529, "dec_tree_pca", "DecisionTreeClassifier", "",
                  [criterion |-> "gini", max_depth |-> 14,
                   min_samples_leaf |-> 1]),
    Stmt("Fit", 543, "dec_tree_pca", <<"X_train_pca", "y_train_pca">>, <<>>),
    Stmt("Predict", 553, "dec_tree_pca", <<"X_test_pca">>,
         <<"y_predict_pca">>),
    Stmt("Evaluate", 563, "accuracy_score",
         <<"y_test_pca", "y_predict_pca">>, <<>>),
    Stmt("Evaluate", 564, "roc_auc_score",
         <<"y_test_pca", "y_predict_pca">>, <<>>),
    Stmt("Evaluate", 565, "f1_score",
         <<"y_test_pca", "y_predict_pca">>, <<>>),
    Stmt("Evaluate", 576, "classification_report",
         <<"y_test_pca", "y_predict_pca">>, <<>>),
    Stmt("Evaluate", 578, "confusion_matrix",
         <<"y_test_pca", "y_predict_pca">>, <<>>),
    Stmt("Score", 588, "dec_tree_pca", <<"X_test_pca", "y_test_pca">>, <<>>) >>

\* ---- wine notebook
\* cv=5 of cross_val_score and of GridSearchCV
WineCv == 5

\* X = dataset.iloc[:, 0:11], y = dataset.iloc[:, 11]
WineFeatureCount == 11

\* grid_param: max_depth [5, 10] x n_estimators [50] x random_state [1]
WineGrid ==
    {[max_depth |-> d, n_estimators |-> 50, random_state |-> 1] :
        d \in {5, 10}}

\* a slip: the label parts joined in the other order
WineConcatLabels_swapped ==
    Stmt("Concat", 156, "", <<"y_test", "y_train">>, <<"y">>)

\* y = np.concatenate((y_train, y_test), axis=0)
WineConcatLabels == Stmt("Concat", 156, "", <<"y_train", "y_test">>, <<"y">>)

WineNb == <<
    FilterStmt(38, "UndefinedMetricWarning"),
    Stmt("Load", 48, "read_csv", <<>>, <<"dataset">>),
    ColStmt(73, "iloc_values", <<"dataset">>, <<"X">>,
            PosCols(WineFeatureCount)),
    ColStmt(74, "iloc_values", <<"dataset">>, <<"y">>,
            {ToString(WineFeatureCount)}),
    SplitStmt(91, <<"X", "y">>,
              <<"X_train", "X_test", "y_train", "y_test">>, 0, <<1, 5>>, ""),
    ConstructStmt(116, "feature_scaler", "StandardScaler", "", <<>>),
    Stmt("PrepFitTransform", 117, "feature_scaler", <<"X_train">>,
         <<"X_train">>),
    Stmt("PrepTransform", 118, "feature_scaler", <<"X_test">>, <<"X_test">>),
    ConstructStmt(136, "classifier", "GradientBoostingClassifier", "",
                  [n_estimators |-> 50, max_depth |-> 5, random_state |-> 1]),
    Stmt("Fit", 139, "classifier", <<"X_train", "y_train">>, <<>>),
    Stmt("Concat", 155, "", <<"X_train", "X_test">>, <<"X">>),
    WineConcatLabels,
    CvStmt("CrossVal", 165, "classifier", <<"X", "y">>, WineCv),
    SearchStmt(266, "gb_clf", "classifier", <<"X_train", "y_train">>,
               WineCv, WineGrid),
    Stmt("Score", 301, "gb_clf", <<"X_train", "y_train">>, <<>>),
    Stmt("Score", 310, "gb_clf", <<"X_test", "y_test">>, <<>>),
    Stmt("Predict", 326, "gb_clf", <<"X_test">>, <<"y_pred">>),
    Stmt("Evaluate", 327, "confusion_matrix", <<"y_test", "y_pred">>, <<>>),
    Stmt("Evaluate", 357, "classification_report",
         <<"y_test", "y_pred">>, <<>>) >>

\* ---- banking notebook
\* columns of the banking file: the target 'y' the notebook names, and two
\* features standing for the rest
BankingColumns == {"y", "age", "job"}

BankingNb == <<
    Stmt("Load", 42, "read_csv", <<>>, <<"df">>),
    ColStmt(76, "drop", <<"df">>, <<"X_df">>, {"y"}),
    ColStmt(77, "getitem", <<"df">>, <<"y">>, {"y"}),
    SplitStmt(110, <<"X_df", "y">>,
              <<"X_train", "X_test", "y_train", "y_test">>, 10, <<1, 5>>, ""),
    ConstructStmt(133, "gb", "GradientBoostingClassifier", "",
                  [n_estimators |-> 100, max_depth |-> 5,
                   min_samples_leaf |-> 1, learning_rate |-> <<1, 10>>,
                   random_state |-> 0]),
    Stmt("Fit", 141, "gb", <<"X_train", "y_train">>, <<>>),
    Stmt("Predict", 157, "gb", <<"X_test">>, <<"y_pred">>),
    LookupStmt(175, "y_test", 0),
    Stmt("Evaluate", 175, "accuracy_score", <<"y_test", "y_pred">>, <<>>),
    Stmt("PredictProba", 195, "gb", <<"X_test">>, <<"preds">>),
    Stmt("Evaluate", 197, "roc_curve", <<"y_test", "preds">>, <<>>),
    Stmt("Predict", 229, "gb", <<"X_test">>, <<"y_pred">>),
    LookupStmt(229, "y_test", 0),
    Stmt("Evaluate", 232, "confusion_matrix", <<"y_test", "y_pred">>, <<>>) >>

\* ---- regression notebook
RegressionCv == 5

\* columns of the subscription file: the two the notebook names, and two
\* features standing for the rest
RegressionColumns == {"Subscription Length", "Churn", "Age", "Charge Amount"}

\* hyper_params: n_features_to_select over range(1, 13)
RegressionGrid == {[n_features_to_select |-> k] : k \in 1..12}

RegressionRename ==
    RenameStmt(173, "subscrlength_df", "Subscription Length",
               "SubscriptionLength")

RegressionNb == <<
    FilterStmt(52, ""),
    Stmt("Load", 62, "read_csv", <<>>, <<"subscrlength_df">>),
    ColStmt(135, "drop", <<"subscrlength_df">>, <<"X_df">>,
            {"Subscription Length", "Churn"}),
    RegressionRename,
    ColStmt(174, "drop", <<"subscrlength_df">>, <<"X_df">>,
            {"SubscriptionLength", "Churn"}),
    ColStmt(175, "getitem", <<"subscrlength_df">>, <<"y">>,
            {"SubscriptionLength"}),
    SplitStmt(177, <<"X_df", "y">>,
              <<"X_train", "X_test", "y_train", "y_test">>, 3, <<3, 10>>, ""),
    ConstructStmt(209, "lm", "LinearRegression", "", <<>>),
    Stmt("Fit", 210, "lm", <<"X_train", "y_train">>, <<>>),
    ConstructStmt(212, "rfe", "RFE", "lm", [n_features_to_select |-> 8]),
    Stmt("Fit", 213, "rfe", <<"X_train", "y_train">>, <<>>),
    Stmt("Predict", 235, "rfe", <<"X_test">>, <<"y_pred">>),
    Stmt("Evaluate", 238, "r2_score", <<"y_test", "y_pred">>, <<>>),
    ConstructStmt(249, "lm", "LinearRegression", "", <<>>),
    Stmt("Fit", 250, "lm", <<"X_train", "y_train">>, <<>>),
    ConstructStmt(252, "rfe", "RFE", "lm", [n_features_to_select |-> 11]),
    Stmt("Fit", 253, "rfe", <<"X_train", "y_train">>, <<>>),
    Stmt("Predict", 256, "rfe", <<"X_test">>, <<"y_pred">>),
    Stmt("Evaluate", 257, "r2_score", <<"y_test", "y_pred">>, <<>>),
    ConstructStmt(294, "lm", "LinearRegression", "", <<>>),
    Stmt("Fit", 295, "lm", <<"X_train", "y_train">>, <<>>),
    ConstructStmt(296, "rfe", "RFE", "lm", <<>>),
    SearchStmt(307, "model_cv", "rfe", <<"X_train", "y_train">>,
               RegressionCv, RegressionGrid),
    ConstructStmt(354, "lm", "LinearRegression", "", <<>>),
    Stmt("Fit", 355, "lm", <<"X_train", "y_train">>, <<>>),
    ConstructStmt(357, "rfe", "RFE", "lm", [n_features_to_select |-> 10]),
    Stmt("Fit", 358, "rfe", <<"X_train", "y_train">>, <<>>),
    Stmt("Predict", 361, "lm", <<"X_test">>, <<"y_pred">>),
    Stmt("Evaluate", 362, "r2_score", <<"y_test", "y_pred">>, <<>>) >>

\* ---- adult notebook (train and test partitions come as two files)
\* columns of the adult files: the target, a numeric feature and a
\* categorical feature standing for the rest
AdultColumns == {"target", "age", "workclass"}

AdultCategorical == {"workclass"}

\* values a file may hold in its categorical column
AdultLevels == {"Private", "State-gov"}

\* the one-hot column of a value of the categorical column
DummyCol(level) ==
    CASE level = "Private" -> "workclass_Private"
      [] level = "State-gov" -> "workclass_State-gov"

\* a slip: the test columns left as get_dummies made them
AdultReindex_skipped ==
    Stmt("Derive", 705, "DataFrame", <<"X_test_encoded">>,
         <<"X_test_encoded">>)

AdultReindex ==
    Stmt("Derive", 705, "reindex", <<"X_test_encoded", "X_train_encoded">>,
         <<"X_test_encoded">>)

AdultNb == <<
    FilterStmt(672, ""),
    Stmt("Load", 697, "read_csv", <<>>, <<"train_data">>),
    Stmt("Load", 698, "test_file", <<>>, <<"test_data">>),
    ColStmt(701, "get_dummies", <<"train_data">>, <<"X_train_encoded">>,
            {"target"}),
    ColStmt(702, "get_dummies", <<"test_data">>, <<"X_test_encoded">>,
            {"target"}),
    AdultReindex,
    ConstructStmt(731, "sas_dtree", "DecisionTreeClassifier", "",
                  [max_depth |-> 5]),
    Stmt("Fit", 734, "sas_dtree", <<"X_train_encoded", "train_data">>, <<>>),
    Stmt("Predict", 737, "sas_dtree", <<"X_test_encoded">>,
         <<"y_pred_tree">>),
    Stmt("PredictProba", 740, "sas_dtree", <<"X_test_encoded">>,
         <<"y_pred_proba_tree">>),
    ColStmt(743, "getitem", <<"test_data">>, <<"y_test_binary">>,
            {"target"}),
    Stmt("Evaluate", 761, "confusion_matrix",
         <<"test_data", "y_pred_tree">>, <<>>),
    Stmt("Evaluate", 762, "roc_curve",
         <<"y_test_binary", "y_pred_proba_tree">>, <<>>),
    Stmt("Evaluate", 763, "roc_auc_score",
         <<"y_test_binary", "y_pred_proba_tree">>, <<>>),
    ConstructStmt(797, "sas_forest_model", "ForestClassifier", "",
                  [n_estimators |-> 100, max_depth |-> 5,
                   random_state |-> 12345]),
    Stmt("Fit", 800, "sas_forest_model",
         <<"X_train_encoded", "train_data">>, <<>>),
    Stmt("Predict", 803, "sas_forest_model", <<"X_test_encoded">>,
         <<"y_pred_rf">>),
    Stmt("PredictProba", 806, "sas_forest_model", <<"X_test_encoded">>,
         <<"y_pred_proba_rf">>),
    Stmt("Evaluate", 823, "confusion_matrix",
         <<"test_data", "y_pred_rf">>, <<>>),
    Stmt("Evaluate", 824, "roc_curve",
         <<"y_test_binary", "y_pred_proba_rf">>, <<>>),
    Stmt("Evaluate", 825, "roc_auc_score",
         <<"y_test_binary", "y_pred_proba_rf">>, <<>>),
    ConstructStmt(861, "sas_gb_model", "GradientBoostingClassifier", "",
                  [n_estimators |-> 100, max_depth |-> 5,
                   random_state |-> 12345]),
    Stmt("Fit", 864, "sas_gb_model", <<"X_train_encoded", "train_data">>,
         <<>>),
    Stmt("Predict", 867, "sas_gb_model", <<"X_test_encoded">>,
         <<"y_pred_gb">>),
    Stmt("PredictProba", 870, "sas_gb_model", <<"X_test_encoded">>,
         <<"y_pred_proba_gb">>),
    Stmt("Evaluate", 887, "confusion_matrix",
         <<"test_data", "y_pred_gb">>, <<>>),
    Stmt("Evaluate", 888, "roc_curve",
         <<"y_test_binary", "y_pred_proba_gb">>, <<>>),
    Stmt("Evaluate", 889, "roc_auc_score",
         <<"y_test_binary", "y_pred_proba_gb">>, <<>>),
    Stmt("Evaluate", 927, "classification_report",
         <<"test_data", "y_pred_tree">>, <<>>),
    Stmt("Evaluate", 928, "classification_report",
         <<"test_data", "y_pred_rf">>, <<>>),
    Stmt("Evaluate", 929, "classification_report",
         <<"test_data", "y_pred_gb">>, <<>>) >>

Notebooks ==
    {"digits", "mushroom", "wine", "banking", "regression", "adult"}

Program(name) ==
    CASE name = "digits" -> DigitsNb
      [] name = "mushroom" -> MushroomNb
      [] name = "wine" -> WineNb
      [] name = "banking" -> BankingNb
      [] name = "regression" -> RegressionNb
      [] name = "adult" -> AdultNb

\* the stage of the workflow a statement belongs to ("" for glue code
\* that only rebinds or reshapes a table)
StageOf(op) ==
    CASE op = "Load" -> "Loader"
      [] op = "Split" -> "Splitter"
      [] op \in {"PrepFit", "PrepTransform", "PrepFitTransform"}
            -> "Preprocessor"
      [] op \in {"Fit", "Search"} -> "EstimatorFit"
      [] op \in {"Predict", "PredictProba"} -> "EstimatorPredict"
      [] op \in {"Score", "Evaluate", "CrossVal"} -> "Evaluator"
      [] OTHER -> ""

(***************************************************************************)
(* Hyperparameter Search: GridSearchCV(estimator, param_grid, scoring,    *)
(* cv, n_jobs).fit(X, y).  fit enumerates the grid (ParameterGrid), runs  *)
(* one _fit_and_score task per (candidate, fold) in the order candidate-  *)
(* major, fold-minor, through joblib.Parallel (tasks of a parallel search *)
(* finish in any order; the list `out` is in submission order), averages  *)
(* the fold scores of each candidate, ranks the averages, and refits the  *)
(* winner on the whole of X (refit is left at its default).               *)
(* A fold score is opaque: any value of Scores.                           *)
(***************************************************************************)
Scores == {0, 1}

\* ParameterGrid of {'max_depth': values, 'n_estimators': [50],
\* 'random_state': [1]}: one candidate per value, in list order
ParameterGrid(values) ==
    [i \in DOMAIN values |->
        [max_depth |-> values[i], n_estimators |-> 50, random_state |-> 1]]

\* grid_param / GridSearchCV(cv=5, n_jobs=-1) of the wine notebook
WineSearch ==
    [grid |-> ParameterGrid(<<5, 10>>), cv |-> WineCv, parallel |-> TRUE]

\* searches over 1..MaxGrid candidates and 2..MaxFolds folds, parallel
\* (n_jobs=-1) or sequential (n_jobs left out); the wine search is one
SearchConfigs ==
    {WineSearch} \cup
    {[grid |-> ParameterGrid([i \in 1..g |-> i]), cv |-> k, parallel |-> p] :
        g \in 1..MaxGrid, k \in 2..MaxFolds, p \in BOOLEAN}

NCandidates(cfg) == Len(cfg.grid)

Tasks(cfg) == 1..(NCandidates(cfg) * cfg.cv)

\* task t is candidate CandidateOf, fold FoldOf (both from 1)
CandidateOf(cfg, t) == ((t - 1) \div cfg.cv) + 1

FoldOf(cfg, t) == ((t - 1) % cfg.cv) + 1

TasksOf(cfg, c) == {t \in Tasks(cfg) : CandidateOf(cfg, t) = c}

\* a slip: results are appended as tasks finish
ResultSlot_byArrival(t, out) == Cardinality(DOMAIN out) + 1

\* the list joblib returns holds the result of task t at position t
ResultSlot(t, out) == t

\* a slip: refit switched off
Refit_off == FALSE

\* GridSearchCV(...) without a refit argument: refit=True
Refit == TRUE

\* mean_test_score: the average of the candidate's fold scores in `out`,
\* as the ratio <<sum, n_splits>>
MeanTestScore(cfg, out) ==
    [c \in 1..NCandidates(cfg) |->
        <<SumOver(out, TasksOf(cfg, c)), cfg.cv>>]

RatioLess(a, b) == a[1] * b[2] < b[1] * a[2]

\* rank_test_score = rankdata(-mean_test_score, method="min")
RankTestScore(means) ==
    [c \in DOMAIN means |->
        1 + Cardinality({d \in DOMAIN means : RatioLess(means[c], means[d])})]

\* a slip: the last of the candidates of minimal rank
BestIndex_last(means) ==
    LET rank == RankTestScore(means)
    IN  CHOOSE c \in DOMAIN rank :
            /\ \A d \in DOMAIN rank : rank[c] <= rank[d]
            /\ \A d \in DOMAIN rank : rank[d] = rank[c] => d <= c

\* best_index_ = rank_test_score.argmin(): the first candidate of
\* minimal rank (positions counted from 1 here)
BestIndex(means) ==
    LET rank == RankTestScore(means)
    IN  CHOOSE c \in DOMAIN rank :
            /\ \A d \in DOMAIN rank : rank[c] <= rank[d]
            /\ \A d \in DOMAIN rank : rank[d] = rank[c] => c <= d

NoResult == [status |-> "none"]

VARIABLES
    sp_n,        \* Splitter on its own: number of rows of the input
    sp_f,        \* its test_size
    sp_out,      \* its result
    sp_y,        \* row -> class of the stratify column, <<>> without one
    ev_true,     \* Evaluator on its own: y_test, the true labels
    ev_pred,     \* y_pred, the predicted labels
    ev_cm,       \* cm, the confusion matrix once computed
    ev_report,   \* the classification report once computed
    ev_y,        \* row -> class of the whole label column, <<>> without one
    ev_plot,     \* what the plot of the matrix did, once drawn
    train_data,       \* one-hot encoding on its own: adult_train.csv
    test_data,        \* adult_test.csv
    X_train_encoded,  \* the encoded training table
    X_test_encoded,   \* the encoded test table, re-indexed at the end
    fr_line,          \* the statement of the encoding cell to run next
    gs_cfg,      \* Hyperparameter Search: grid, cv and n_jobs of the call
    gs_phase,    \* "running" while tasks are out, then "done"
    gs_out,      \* out: position -> fold score, as far as filled
    gs_made,     \* task -> the fold score that task computed
    gs_ooo,      \* a task finished while an earlier one was still out
    gs_fits,     \* estimator fit calls since the search call began
    gs_result,   \* mean_test_score, best_index_, best_params_, best_estimator_
    nb,          \* Notebook run: which notebook is run
    nb_pc,       \* index of the next statement of its program
    nb_err,      \* the exception that stopped the run, "" while none
    nb_n,        \* number of rows of the dataset file
    nb_y,        \* row -> class of the target column
    nb_env,      \* variable name -> the original rows the table holds
    nb_prep,     \* preprocessor object -> rows its parameters come from
    nb_est,      \* estimator object -> rows it was last fitted on
    nb_held,     \* rows placed in a held-out test subset so far
    nb_rng,      \* what the generator of a seed yields for an input
    nb_cv,       \* the cross-validated calls made: line, rows passed, cv
    nb_levels,   \* adult files: the values their categorical column holds
    nb_cols,     \* variable name -> the column labels of the table
    nb_obj,      \* variable name -> the loaded Dataset object it refers
                 \* to (the line of its load), 0 for any other object
    nb_data,     \* loaded Dataset object -> its rows and columns now
    nb_read,     \* loaded Dataset object -> its rows and columns as read
    nb_conf,     \* constructed object -> its class, wrapped estimator
                 \* and keyword arguments
    nb_prepCols, \* preprocessor object -> column labels seen by fit
    nb_estCols,  \* estimator object -> column labels seen by fit
    nb_filters,  \* the warning filters installed: category ignored
    nb_best,     \* search object -> best_params_, the grid point that won
    nb_ord,      \* variable name -> the order its rows are in and the
                 \* kind of row index it carries
    cv_site,     \* Cross-validation: the call made
    cv_tags,     \* position in the X passed -> "train" or "test" row
    cv_y,        \* position in the y passed -> class
    cv_status,   \* "called", then "split" or "ValueError"
    cv_folds,    \* fold -> positions of its held-out part
    cv_trained,  \* fold -> positions its models were fitted on
    api_kind,    \* One object of the estimator API: "estimator" or
                 \* "preprocessor"
    api_state,   \* "new", "rejected", "constructed" or "fitted"
    api_params,  \* the keyword arguments its constructor was given
    api_fitCols, \* the column labels its last fit saw
    api_out      \* the outcome of the last call on it

splitVars == <<sp_n, sp_f, sp_out, sp_y>>

evalVars == <<ev_true, ev_pred, ev_cm, ev_report, ev_y, ev_plot>>

frameVars == <<train_data, test_data, X_train_encoded, X_test_encoded,
               fr_line>>

searchVars == <<gs_cfg, gs_phase, gs_out, gs_made, gs_ooo, gs_fits, gs_result>>

nbVars == <<nb, nb_pc, nb_err, nb_n, nb_y, nb_env, nb_prep, nb_est, nb_held,
            nb_rng, nb_cv, nb_levels, nb_cols, nb_obj, nb_data, nb_read,
            nb_conf, nb_prepCols, nb_estCols, nb_filters, nb_ord,
            nb_best>>

cvVars == <<cv_site, cv_tags, cv_y, cv_status, cv_folds, cv_trained>>

apiVars == <<api_kind, api_state, api_params, api_fitCols, api_out>>

vars == <<splitVars, evalVars, frameVars, searchVars, nbVars, cvVars,
         apiVars>>

(***************************************************************************)
(* Each specification runs one part of the workflow; the variables of the *)
(* other parts rest at these values.                                      *)
(***************************************************************************)
SplitIdle == sp_n = 0 /\ sp_f = <<1, 2>> /\ sp_out = NoSplit /\ sp_y = <<>>

EvalIdle ==
    /\ ev_true = <<>>
    /\ ev_pred = <<>>
    /\ ev_cm = NoValue
    /\ ev_report = NoValue
    /\ ev_y = <<>>
    /\ ev_plot = NoValue

FrameIdle ==
    /\ train_data = NoValue
    /\ test_data = NoValue
    /\ X_train_encoded = NoValue
    /\ X_test_encoded = NoValue
    /\ fr_line = 0

SearchIdle ==
    /\ gs_cfg = WineSearch
    /\ gs_phase = "idle"
    /\ gs_out = <<>>
    /\ gs_made = <<>>
    /\ gs_ooo = FALSE
    /\ gs_fits = 0
    /\ gs_result = NoResult

NoBindings == [v \in {} |-> {}]

NbIdle ==
    /\ nb = "none"
    /\ nb_pc = 1
    /\ nb_err = ""
    /\ nb_n = 0
    /\ nb_y = NoBindings
    /\ nb_env = NoBindings
    /\ nb_prep = NoBindings
    /\ nb_est = NoBindings
    /\ nb_held = {}
    /\ nb_rng = NoBindings
    /\ nb_cv = <<>>
    /\ nb_levels = [train |-> {}, test |-> {}]
    /\ nb_cols = NoBindings
    /\ nb_obj = NoBindings
    /\ nb_data = NoBindings
    /\ nb_read = NoBindings
    /\ nb_conf = NoBindings
    /\ nb_prepCols = NoBindings
    /\ nb_estCols = NoBindings
    /\ nb_filters = {}
    /\ nb_ord = NoBindings
    /\ nb_best = NoBindings

ApiIdle ==
    /\ api_kind = "none"
    /\ api_state = "idle"
    /\ api_params = <<>>
    /\ api_fitCols = {}
    /\ api_out = NoValue

CvIdle ==
    /\ cv_site = "none"
    /\ cv_tags = <<>>
    /\ cv_y = <<>>
    /\ cv_status = "idle"
    /\ cv_folds = <<>>
    /\ cv_trained = <<>>

(***************************************************************************)
(* SpecSplit: one call of the Splitter on any table and fraction.         *)
(***************************************************************************)
SplitInit ==
    /\ sp_n \in 1..MaxRows
    /\ sp_f \in TestSizes
    /\ sp_out = NoSplit
    /\ sp_y = <<>>
    /\ EvalIdle
    /\ FrameIdle
    /\ SearchIdle
    /\ NbIdle
    /\ CvIdle
    /\ ApiIdle

SplitCall ==
    /\ sp_out.status = "none"
    /\ \E perm \in Permutations0(sp_n) :
          sp_out' = TrainTestSplit(sp_n, sp_f, perm)
    /\ UNCHANGED <<sp_n, sp_f, sp_y, evalVars, frameVars, searchVars, nbVars, cvVars,
                   apiVars>>

SpecSplit == SplitInit /\ [][SplitCall]_vars

\* one call of the Splitter with any fraction a caller may pass
SplitAnyInit ==
    /\ sp_n \in 1..MaxRows
    /\ sp_f \in SplitFractions
    /\ sp_out = NoSplit
    /\ sp_y = <<>>
    /\ EvalIdle
    /\ FrameIdle
    /\ SearchIdle
    /\ NbIdle
    /\ CvIdle
    /\ ApiIdle

SpecSplitAny == SplitAnyInit /\ [][SplitCall]_vars

(***************************************************************************)
(* SpecEval: confusion matrix and report of any pair of label vectors.    *)
(***************************************************************************)
EvalInit ==
    /\ \E n \in 1..MaxEval :
          /\ ev_true \in LabelVectors(n)
          /\ ev_pred \in LabelVectors(n)
    /\ ev_cm = NoValue
    /\ ev_report = NoValue
    /\ ev_y = <<>>
    /\ ev_plot = NoValue
    /\ FrameIdle
    /\ SplitIdle
    /\ SearchIdle
    /\ NbIdle
    /\ CvIdle
    /\ ApiIdle

\* cm = confusion_matrix(y_test, y_pred)
EvalConfusionMatrix ==
    /\ ev_cm = NoValue
    /\ ev_cm' = [status |-> "ok", cm |-> ConfusionMatrix(ev_true, ev_pred),
                 array |-> CmArray(ev_true, ev_pred)]
    /\ UNCHANGED <<ev_true, ev_pred, ev_report, ev_y, ev_plot, frameVars, splitVars,
                   searchVars, nbVars, cvVars, apiVars>>

\* print(classification_report(y_test, y_pred))
EvalClassificationReport ==
    /\ ev_cm # NoValue
    /\ ev_report = NoValue
    /\ ev_report' = [status |-> "ok",
                     rows |-> ClassificationReport(ev_true, ev_pred)]
    /\ UNCHANGED <<ev_true, ev_pred, ev_cm, ev_y, ev_plot, frameVars, splitVars,
                   searchVars, nbVars, cvVars, apiVars>>

EvalNext == EvalConfusionMatrix \/ EvalClassificationReport

SpecEval == EvalInit /\ [][EvalNext]_vars

(***************************************************************************)
(* SpecPlot: the wine notebook's matrix and the loop that writes its      *)
(* cells into the figure, for any test labels and predictions.            *)
(***************************************************************************)
MaxPlot == 3      \* longest pair of label vectors that is plotted

\* range(6): the tick positions and the bounds of both loops
WineTicks == 6

\* the quality levels the label column may hold
QualityLevels == 0..(WineTicks - 1)

PlotInit ==
    /\ \E n \in 1..MaxPlot :
          /\ ev_true \in [1..n -> QualityLevels]
          /\ ev_pred \in [1..n -> QualityLevels]
    /\ ev_cm = NoValue
    /\ ev_report = NoValue
    /\ ev_y = <<>>
    /\ ev_plot = NoValue
    /\ FrameIdle
    /\ SplitIdle
    /\ SearchIdle
    /\ NbIdle
    /\ CvIdle
    /\ ApiIdle

\* cm[i, j] of a numpy array: IndexError outside the array
CellOutcome(array, i, j) ==
    IF (i + 1) \in DOMAIN array /\ (j + 1) \in DOMAIN array
    THEN "ok" ELSE "IndexError"

\* for i in range(k): for j in range(k): ax.text(j, i, cm[i, j], ...)
LoopOutcome(array, k) ==
    IF \A i, j \in 0..(k - 1) : CellOutcome(array, i, j) = "ok"
    THEN "ok" ELSE "IndexError"

\* the plotting cell that follows cm = confusion_matrix(y_test, y_pred)
PlotLoop ==
    /\ ev_cm.status = "ok"
    /\ ev_plot = NoValue
    /\ ev_plot' = [status |-> LoopOutcome(ev_cm.array, WineTicks),
                   kind |-> "loop", ticks |-> <<>>]
    /\ UNCHANGED <<ev_true, ev_pred, ev_cm, ev_report, ev_y, frameVars, splitVars,
                   searchVars, nbVars, cvVars, apiVars>>

PlotNext == EvalConfusionMatrix \/ PlotLoop

SpecPlot == PlotInit /\ [][PlotNext]_vars

(***************************************************************************)
(* SpecFrame: the one-hot encoding cell of the adult notebook on tables   *)
(* with their values: a table is the sequence of its column labels and    *)
(* the sequence of its rows, a row giving a value to every column.        *)
(***************************************************************************)
MaxFrameRows == 2

\* the columns of both files, in file order
AdultHeader == <<"age", "workclass", "target">>

\* the values of the categorical column in sorted order, and of the target
LevelOrder == <<"Private", "State-gov">>

TargetLevels == {"<=50K", ">50K"}

AdultRows == [age : {39}, workclass : AdultLevels, target : TargetLevels]

AdultFiles ==
    {[columns |-> AdultHeader, rows |-> r] :
        r \in UNION {[1..n -> AdultRows] : n \in 1..MaxFrameRows}}

FrameInit ==
    /\ train_data \in AdultFiles
    /\ test_data \in AdultFiles
    /\ X_train_encoded = NoValue
    /\ X_test_encoded = NoValue
    /\ fr_line = 701
    /\ SplitIdle
    /\ EvalIdle
    /\ SearchIdle
    /\ NbIdle
    /\ CvIdle
    /\ ApiIdle

\* df.drop(columns=cols): the other columns, in their order
Drop(df, cols) ==
    LET keep == SelectSeq(df.columns, LAMBDA c : c \notin cols)
    IN  [columns |-> keep,
         rows |-> [i \in DOMAIN df.rows |->
                     [c \in Range(keep) |-> df.rows[i][c]]]]

\* the values a column holds, in sorted order
LevelsOf(df, c) ==
    SelectSeq(LevelOrder, LAMBDA l : \E i \in DOMAIN df.rows : df.rows[i][c] = l)

\* pd.get_dummies(df): the numeric columns as they are, then one 0/1
\* column per value each categorical column holds, the values sorted
GetDummies(df) ==
    LET numeric == SelectSeq(df.columns, LAMBDA c : c \notin AdultCategorical)
        levels == LevelsOf(df, "workclass")
        dummies == IF "workclass" \in Range(df.columns)
                   THEN [k \in DOMAIN levels |-> DummyCol(levels[k])]
                   ELSE <<>>
    IN  [columns |-> numeric \o dummies,
         rows |-> [i \in DOMAIN df.rows |->
                     [c \in Range(numeric \o dummies) |->
                        IF c \in Range(numeric) THEN df.rows[i][c]
                        ELSE IF c = DummyCol(df.rows[i]["workclass"])
                        THEN 1 ELSE 0]]]

\* a slip: the table's own columns kept, the missing ones appended
Reindex_appended(df, columns, fill_value) ==
    LET all == df.columns \o
               SelectSeq(columns, LAMBDA c : c \notin Range(df.columns))
    IN  [columns |-> all,
         rows |-> [i \in DOMAIN df.rows |->
                     [c \in Range(all) |->
                        IF c \in Range(df.columns) THEN df.rows[i][c]
                        ELSE fill_value]]]

\* df.reindex(columns=columns, fill_value=fill_value): the listed columns
\* in the listed order; a column the table has keeps its values, a column
\* it lacks holds fill_value in every row
Reindex(df, columns, fill_value) ==
    [columns |-> columns,
     rows |-> [i \in DOMAIN df.rows |->
                 [c \in Range(columns) |->
                    IF c \in Range(df.columns) THEN df.rows[i][c]
                    ELSE fill_value]]]

\* X_train_encoded = pd.get_dummies(train_data.drop(columns=['target']))
FrameEncodeTrain ==
    /\ fr_line = 701
    /\ X_train_encoded' = GetDummies(Drop(train_data, {"target"}))
    /\ fr_line' = 702
    /\ UNCHANGED <<train_data, test_data, X_test_encoded, splitVars,
                   evalVars, searchVars, nbVars, cvVars, apiVars>>

\* X_test_encoded = pd.get_dummies(test_data.drop(columns=['target']))
FrameEncodeTest ==
    /\ fr_line = 702
    /\ X_test_encoded' = GetDummies(Drop(test_data, {"target"}))
    /\ fr_line' = 705
    /\ UNCHANGED <<train_data, test_data, X_train_encoded, splitVars,
                   evalVars, searchVars, nbVars, cvVars, apiVars>>

\* X_test_encoded = X_test_encoded.reindex(
\*     columns=X_train_encoded.columns, fill_value=0)
FrameReindex ==
    /\ fr_line = 705
    /\ X_test_encoded' = Reindex(X_test_encoded, X_train_encoded.columns, 0)
    /\ fr_line' = 706
    /\ UNCHANGED <<train_data, test_data, X_train_encoded, splitVars,
                   evalVars, searchVars, nbVars, cvVars, apiVars>>

FrameNext == FrameEncodeTrain \/ FrameEncodeTest \/ FrameReindex

SpecFrame == FrameInit /\ [][FrameNext]_vars

(***************************************************************************)
(* SpecDisplay: the mushroom notebook's label column in any row order,    *)
(* its stratified split, and the matrix display of the test subset.       *)
(***************************************************************************)
MaxDisplayRows == 6

\* test_size=0.2 of the split whose test subset is displayed
DisplayTestSize == <<1, 5>>

DisplayInit ==
    /\ \E n \in 2..MaxDisplayRows : ev_y \in [0..(n - 1) -> {0, 1}]
    /\ ev_true = <<>>
    /\ ev_pred = <<>>
    /\ ev_cm = NoValue
    /\ ev_report = NoValue
    /\ ev_plot = NoValue
    /\ FrameIdle
    /\ SplitIdle
    /\ SearchIdle
    /\ NbIdle
    /\ CvIdle
    /\ ApiIdle

\* the values of a column over some of its rows, by ascending row
ColumnOf(y, rows) ==
    [i \in 1..Cardinality(rows) |->
        y[CHOOSE r \in rows : Cardinality({q \in rows : q < r}) = i - 1]]

\* Series.unique(): the values of the column, each at its first occurrence
Unique(y) == FirstAppearance(ColumnOf(y, DOMAIN y), <<>>)

\* ..., y_train_pca, y_test_pca = train_test_split(X_pca, y_pca,
\*     random_state=42, stratify=df['target'], test_size=0.2)
DisplaySplit ==
    /\ ev_true = <<>>
    /\ ev_plot = NoValue
    /\ \E out \in StratifiedSplitRows(DOMAIN ev_y, ev_y, DisplayTestSize) :
          IF out.status = "ok"
          THEN /\ ev_true' = ColumnOf(ev_y, out.test)
               /\ UNCHANGED ev_plot
          ELSE /\ ev_plot' = [status |-> out.status, kind |-> "split",
                              ticks |-> <<>>]
               /\ UNCHANGED ev_true
    /\ UNCHANGED <<ev_pred, ev_cm, ev_report, ev_y, frameVars, splitVars, searchVars,
                   nbVars, cvVars, apiVars>>

\* ConfusionMatrixDisplay.from_estimator(dec_tree_pca, X_test_pca,
\*     y_test_pca, display_labels=y_pca.unique()): the estimator predicts,
\* the matrix is computed without labels=, and the labels given are put on
\* the ticks; matplotlib refuses a tick label list of another length
DisplayFromEstimator ==
    /\ ev_true # <<>>
    /\ ev_plot = NoValue
    /\ \E yp \in [DOMAIN ev_true -> Range(ev_y)] :
          /\ ev_pred' = yp
          /\ ev_cm' = [status |-> "ok", cm |-> ConfusionMatrix(ev_true, yp),
                       array |-> CmArray(ev_true, yp)]
          /\ ev_plot' =
                [status |-> IF Len(Unique(ev_y)) = Len(CmArray(ev_true, yp))
                            THEN "ok" ELSE "ValueError",
                 kind |-> "display", ticks |-> Unique(ev_y)]
    /\ UNCHANGED <<ev_true, ev_report, ev_y, frameVars, splitVars, searchVars, nbVars,
                   cvVars, apiVars>>

DisplayNext == DisplaySplit \/ DisplayFromEstimator

SpecDisplay == DisplayInit /\ [][DisplayNext]_vars

(***************************************************************************)
(* SpecSearch: one GridSearchCV.fit call, from the call to its return.    *)
(***************************************************************************)
SearchInit ==
    /\ gs_cfg \in SearchConfigs
    /\ gs_phase = "running"
    /\ gs_out = <<>>
    /\ gs_made = <<>>
    /\ gs_ooo = FALSE
    /\ gs_fits = 0
    /\ gs_result = NoResult
    /\ SplitIdle
    /\ EvalIdle
    /\ FrameIdle
    /\ NbIdle
    /\ CvIdle
    /\ ApiIdle

\* _fit_and_score of task t: fit a clone on the fold's train part, score
\* it on the fold's test part.  Sequential searches run the tasks in
\* submission order; parallel ones finish them in any order.
FitAndScore(t) ==
    /\ gs_phase = "running"
    /\ t \in Tasks(gs_cfg) \ DOMAIN gs_made
    /\ gs_cfg.parallel \/ \A u \in 1..(t - 1) : u \in DOMAIN gs_made
    /\ \E sc \in Scores :
          /\ gs_made' = (t :> sc) @@ gs_made
          /\ gs_out' = (ResultSlot(t, gs_out) :> sc) @@ gs_out
    /\ gs_ooo' = (gs_ooo \/ \E u \in 1..(t - 1) : u \notin DOMAIN gs_made)
    /\ gs_fits' = gs_fits + 1
    /\ UNCHANGED <<gs_cfg, gs_phase, gs_result, splitVars, evalVars, frameVars, nbVars, cvVars, apiVars>>

\* once every task has returned: _format_results, best_index_,
\* best_params_, and the refit of the winner on all of X
SelectAndRefit ==
    /\ gs_phase = "running"
    /\ DOMAIN gs_made = Tasks(gs_cfg)
    /\ LET means == MeanTestScore(gs_cfg, gs_out)
           best == BestIndex(means)
       IN  gs_result' = [status |-> "ok",
                         mean_test_score |-> means,
                         best_index |-> best,
                         best_params |-> gs_cfg.grid[best],
                         refitted |-> Refit]
    /\ gs_fits' = IF Refit THEN gs_fits + 1 ELSE gs_fits
    /\ gs_phase' = "done"
    /\ UNCHANGED <<gs_cfg, gs_out, gs_made, gs_ooo, splitVars, evalVars, frameVars, nbVars, cvVars, apiVars>>

SearchNext == (\E t \in Tasks(gs_cfg) : FitAndScore(t)) \/ SelectAndRefit

SpecSearch == SearchInit /\ [][SearchNext]_vars

(***************************************************************************)
(* The contract of the estimator and preprocessor objects.  The classes   *)
(* come from sasviya.ml and sklearn; their code is not in the repository, *)
(* so their checks are written here as the specification states them,     *)
(* with its error names.                                                  *)
(***************************************************************************)
\* the hyperparameter domains: max_depth >= 1, min_samples_leaf >= 1,
\* criterion in {gini, entropy}, n_estimators >= 1, learning_rate > 0
\* (a rate is a pair <<numerator, denominator>>)
InDomain(p) ==
    /\ "max_depth" \in DOMAIN p => p.max_depth >= 1
    /\ "min_samples_leaf" \in DOMAIN p => p.min_samples_leaf >= 1
    /\ "criterion" \in DOMAIN p => p.criterion \in {"gini", "entropy"}
    /\ "n_estimators" \in DOMAIN p => p.n_estimators >= 1
    /\ "learning_rate" \in DOMAIN p => p.learning_rate[1] > 0

\* Class(**params)
ConstructOutcome(p) == IF InDomain(p) THEN "constructed" ELSE "InvalidParameter"

\* preprocessor.transform(X)
TransformOutcome(fitted, fitCols, cols) ==
    IF ~fitted THEN "NotFitted"
    ELSE IF Cardinality(cols) # Cardinality(fitCols) THEN "ShapeMismatch"
    ELSE "ok"

\* estimator.predict(X) / predict_proba(X) / score(X, y)
PredictOutcome(fitted, fitCols, cols) ==
    IF ~fitted THEN "NotFitted"
    ELSE IF cols # fitCols THEN "SchemaMismatch"
    ELSE "ok"

(***************************************************************************)
(* SpecNb: one notebook run top to bottom (Run All) on a dataset of       *)
(* nb_n rows.  A statement that raises stops the run.                     *)
(***************************************************************************)
MaxNbRows == 8

\* the target column: rows of the first class, then rows of the second
TargetColumns(n) ==
    {[r \in 0..(n - 1) |-> IF r < a THEN 0 ELSE 1] : a \in 0..n}

\* what the categorical column of adult_train.csv and of adult_test.csv
\* may hold
LevelChoices ==
    [train : (SUBSET AdultLevels) \ {{}}, test : (SUBSET AdultLevels) \ {{}}]

NbInit ==
    /\ nb \in Notebooks
    /\ nb_pc = 1
    /\ nb_err = ""
    /\ nb_n \in 1..MaxNbRows
    /\ nb_y \in IF nb = "mushroom" THEN TargetColumns(nb_n)
                ELSE {[r \in 0..(nb_n - 1) |-> 0]}
    /\ nb_env = NoBindings
    /\ nb_prep = NoBindings
    /\ nb_est = NoBindings
    /\ nb_held = {}
    /\ nb_rng = NoBindings
    /\ nb_cv = <<>>
    /\ nb_levels \in IF nb = "adult" THEN LevelChoices
                     ELSE {[train |-> {}, test |-> {}]}
    /\ nb_cols = NoBindings
    /\ nb_obj = NoBindings
    /\ nb_data = NoBindings
    /\ nb_read = NoBindings
    /\ nb_conf = NoBindings
    /\ nb_prepCols = NoBindings
    /\ nb_estCols = NoBindings
    /\ nb_filters = {}
    /\ nb_ord = NoBindings
    /\ nb_best = NoBindings
    /\ SplitIdle
    /\ EvalIdle
    /\ FrameIdle
    /\ SearchIdle
    /\ CvIdle
    /\ ApiIdle

Cur == Program(nb)[nb_pc]

\* a slip: a run that carries on after an exception
At_retry(op) ==
    /\ nb \in Notebooks
    /\ nb_pc <= Len(Program(nb))
    /\ Cur.op = op

\* the run is at a statement of kind op: no exception so far
At(op) ==
    /\ nb \in Notebooks
    /\ nb_err = ""
    /\ nb_pc <= Len(Program(nb))
    /\ Cur.op = op

\* assignment of one value to the names of a statement's targets
Bind(env, names, val) ==
    [v \in (DOMAIN env) \cup names |-> IF v \in names THEN val ELSE env[v]]

\* the statements run so far, in the order they ran
Executed == SubSeq(Program(nb), 1, nb_pc - 1)

nbInput == <<nb, nb_n, nb_y, nb_levels>>

nbTables == <<nb_env, nb_cols, nb_obj, nb_ord>>

nbDatasets == <<nb_data, nb_read>>

nbObjects == <<nb_conf, nb_prep, nb_prepCols, nb_est, nb_estCols>>

nbSplits == <<nb_held, nb_rng>>

nbRest == <<splitVars, evalVars, frameVars, searchVars, cvVars, apiVars>>

\* the statement returned: on to the next one
Advance == nb_pc' = nb_pc + 1 /\ UNCHANGED nb_err

\* the statement raised e: the run stops where it is
Halt(e) ==
    /\ nb_err' = e
    /\ UNCHANGED <<nb_pc, nbTables, nbDatasets, nbObjects, nbSplits, nb_cv, nb_best,
                   nb_filters>>

\* the row order of a table: which call produced it, where, from what.
\* Tables with the same rows and the same order hold them at the same
\* positions.  The index is "labels" for a pandas object that carries the
\* row labels of its file, "range" for a DataFrame built from an array,
\* "none" for an array.  An order is <<call, line, orders it is made of>>;
\* a concatenation is ordered by its parts alone, whichever line joins them.
FileOrder(line) == <<"file", line, <<>>>>

\* pd.concat([a, b], axis=1) joins on the row labels: they agree row by
\* row when both carry the file's labels in the same order, or when the
\* fresh labels 0, 1, ... of one are the file's labels of the other
LabelsMatch(a, b) ==
    LET whole(x) == /\ nb_ord[x].order[1] = "file"
                    /\ nb_env[x] = nb_data[nb_ord[x].order[2]].rows
    IN  CASE nb_ord[a].index = "labels" /\ nb_ord[b].index = "labels" ->
                nb_env[a] = nb_env[b] /\ nb_ord[a].order = nb_ord[b].order
          [] nb_ord[a].index = "labels" -> whole(a) /\ nb_env[a] = nb_env[b]
          [] nb_ord[b].index = "labels" -> whole(b) /\ nb_env[a] = nb_env[b]
          [] OTHER -> Cardinality(nb_env[a]) = Cardinality(nb_env[b])

\* what a statement makes of the row order and index of its sources
Orders(st) ==
    LET from(k) == nb_ord[st.src[k]]
        part(side, k) ==
            [order |-> <<side, st.line, <<from(k).order>>>>,
             index |-> from(k).index]
    IN  CASE st.op = "Load" ->
                [v \in Range(st.dst) |->
                    [order |-> FileOrder(st.line),
                     index |-> IF st.obj = "load_digits" THEN "none"
                               ELSE "labels"]]
          [] st.op = "Split" ->
                (st.dst[1] :> part("train", 1)) @@
                (st.dst[2] :> part("test", 1)) @@
                (st.dst[3] :> part("train", 2)) @@
                (st.dst[4] :> part("test", 2))
          [] st.op = "Concat" ->
                [v \in Range(st.dst) |->
                    [order |-> <<"concat", 0,
                                 <<from(1).order, from(2).order>>>>,
                     index |-> "none"]]
          [] st.op = "Derive" /\ st.obj = "concat_columns" ->
                [v \in Range(st.dst) |->
                    IF LabelsMatch(st.src[1], st.src[2]) THEN from(1)
                    ELSE [order |-> <<"outer", st.line,
                                      <<from(1).order, from(2).order>>>>,
                          index |-> "labels"]]
          [] st.op = "Derive" /\ st.obj = "DataFrame" ->
                [v \in Range(st.dst) |->
                    [order |-> from(1).order, index |-> "range"]]
          [] st.op = "Derive" /\ st.obj # "iloc_values" ->
                [v \in Range(st.dst) |-> from(1)]
          [] OTHER ->
                [v \in Range(st.dst) |->
                    [order |-> from(1).order, index |-> "none"]]

\* warnings.filterwarnings("ignore", category=C); without category= the
\* filter takes the default, Warning, the base of every category
NbFilter ==
    /\ At("Filter")
    /\ nb_filters' = nb_filters \cup
                        {IF Cur.obj = "" THEN "Warning" ELSE Cur.obj}
    /\ Advance
    /\ UNCHANGED <<nbInput, nbTables, nbDatasets, nbObjects, nbSplits, nb_cv, nb_best,
                   nbRest>>

\* the columns of the file a notebook reads
FileCols(name) ==
    CASE name = "digits" -> PosCols(DigitsFeatureCount)
      [] name = "mushroom" -> MushroomColumns
      [] name = "wine" -> PosCols(WineFeatureCount + 1)
      [] name = "banking" -> BankingColumns
      [] name = "regression" -> RegressionColumns
      [] name = "adult" -> AdultColumns

\* pd.read_csv(path) / load_digits(return_X_y=True).  A file that is not
\* there raises; load_digits reads a dataset bundled with sklearn.
NbLoad ==
    /\ At("Load")
    /\ \/ /\ Cur.obj # "load_digits"
          /\ Halt("SourceNotFound")
       \/ LET rows == IF Cur.obj = "test_file"
                      THEN nb_n..(2 * nb_n - 1) ELSE 0..(nb_n - 1)
              data == [rows |-> rows, cols |-> FileCols(nb),
                       levels |-> IF Cur.obj = "test_file"
                                  THEN nb_levels.test ELSE nb_levels.train]
          IN  /\ nb_ord' = Orders(Cur) @@ nb_ord
              /\ nb_env' = Bind(nb_env, Range(Cur.dst), rows)
              /\ nb_cols' = IF Len(Cur.dst) = 2
                            THEN Bind(Bind(nb_cols, {Cur.dst[1]}, data.cols),
                                      {Cur.dst[2]}, {})
                            ELSE Bind(nb_cols, Range(Cur.dst), data.cols)
              /\ nb_obj' = Bind(nb_obj, Range(Cur.dst), Cur.line)
              /\ nb_data' = Bind(nb_data, {Cur.line}, data)
              /\ nb_read' = Bind(nb_read, {Cur.line}, data)
              /\ nb_held' = IF Cur.obj = "test_file"
                            THEN nb_held \cup rows ELSE nb_held
              /\ Advance
              /\ UNCHANGED <<nbObjects, nb_rng, nb_cv, nb_best, nb_filters>>
    /\ UNCHANGED <<nbInput, nbRest>>

\* the column labels a Derive statement needs its source to have
NeededCols(st) ==
    IF st.obj \in {"drop", "getitem", "get_dummies", "rename_inplace"}
    THEN st.cols ELSE {}

\* the column labels of the table a Derive statement makes
DeriveCols(st) ==
    LET c == nb_cols[st.src[1]]
    IN  CASE st.obj = "drop" -> c \ st.cols
          [] st.obj = "getitem" -> st.cols
          [] st.obj = "iloc_values" -> PosCols(Cardinality(st.cols))
          [] st.obj = "concat_columns" -> c \cup nb_cols[st.src[2]]
          [] st.obj = "get_dummies" ->
                ((c \ st.cols) \ AdultCategorical) \cup
                {DummyCol(l) : l \in nb_data[nb_obj[st.src[1]]].levels}
          [] st.obj = "reindex" -> nb_cols[st.src[2]]
          [] st.obj = "rename_inplace" -> (c \ st.cols) \cup {st.name}
          [] OTHER -> c

\* column selection, re-wrapping, encoding: a new table of the same rows.
\* rename(..., inplace=True) instead relabels the object it is called on,
\* under every name that refers to it.
NbDerive ==
    /\ At("Derive")
    /\ IF ~(NeededCols(Cur) \subseteq nb_cols[Cur.src[1]])
       THEN Halt("KeyError")
       ELSE /\ nb_ord' = Orders(Cur) @@ nb_ord
            /\ nb_env' = Bind(nb_env, Range(Cur.dst), nb_env[Cur.src[1]])
            /\ IF Cur.obj = "rename_inplace"
               THEN LET id == nb_obj[Cur.src[1]]
                        same == {v \in DOMAIN nb_obj :
                                    id # 0 /\ nb_obj[v] = id}
                    IN  /\ nb_cols' = Bind(nb_cols, same \cup Range(Cur.dst),
                                           DeriveCols(Cur))
                        /\ nb_data' =
                              IF id = 0 THEN nb_data
                              ELSE Bind(nb_data, {id},
                                        [nb_data[id] EXCEPT
                                            !.cols = DeriveCols(Cur)])
                        /\ UNCHANGED nb_obj
               ELSE /\ nb_cols' = Bind(nb_cols, Range(Cur.dst),
                                       DeriveCols(Cur))
                    /\ nb_obj' = Bind(nb_obj, Range(Cur.dst), 0)
                    /\ UNCHANGED nb_data
            /\ Advance
            /\ UNCHANGED <<nb_read, nbObjects, nbSplits, nb_cv, nb_best, nb_filters>>
    /\ UNCHANGED <<nbInput, nbRest>>

\* np.concatenate((a, b)): the rows of a followed by the rows of b
NbConcat ==
    /\ At("Concat")
    /\ nb_ord' = Orders(Cur) @@ nb_ord
    /\ nb_env' = Bind(nb_env, Range(Cur.dst),
                      nb_env[Cur.src[1]] \cup nb_env[Cur.src[2]])
    /\ nb_cols' = Bind(nb_cols, Range(Cur.dst), nb_cols[Cur.src[1]])
    /\ nb_obj' = Bind(nb_obj, Range(Cur.dst), 0)
    /\ Advance
    /\ UNCHANGED <<nbInput, nbDatasets, nbObjects, nbSplits, nb_cv, nb_best,
                   nb_filters, nbRest>>

\* the labels a split stratifies on (none without stratify=)
StratLabels(st) ==
    IF st.strat = "" THEN NoBindings
    ELSE [r \in nb_env[st.strat] |-> nb_y[r]]

\* what decides the generator's draws: seed, fraction, input, labels
RngKey(st) == <<st.seed, st.f, nb_env[st.src[1]], StratLabels(st)>>

SplitOutcomes(st) ==
    IF st.strat = "" THEN TrainTestSplitRows(nb_env[st.src[1]], st.f)
    ELSE IF nb_env[st.strat] # nb_env[st.src[1]]
    THEN {[status |-> "ValueError", train |-> {}, test |-> {}]}
    ELSE StratifiedSplitRows(nb_env[st.src[1]], nb_y, st.f)

\* X_train, X_test, y_train, y_test = train_test_split(X, y, ...): a
\* generator seeded with random_state draws the same for the same input
NbSplit ==
    /\ At("Split")
    /\ \E out \in IF RngKey(Cur) \in DOMAIN nb_rng
                  THEN {nb_rng[RngKey(Cur)]} ELSE SplitOutcomes(Cur) :
          IF out.status = "ok"
          THEN /\ nb_rng' = Bind(nb_rng, {RngKey(Cur)}, out)
               /\ nb_ord' = Orders(Cur) @@ nb_ord
               /\ nb_env' = Bind(Bind(nb_env, {Cur.dst[1], Cur.dst[3]},
                                      out.train),
                                 {Cur.dst[2], Cur.dst[4]}, out.test)
               /\ nb_cols' = Bind(Bind(nb_cols, {Cur.dst[1], Cur.dst[2]},
                                       nb_cols[Cur.src[1]]),
                                  {Cur.dst[3], Cur.dst[4]},
                                  nb_cols[Cur.src[2]])
               /\ nb_obj' = Bind(nb_obj, Range(Cur.dst), 0)
               /\ nb_held' = nb_held \cup out.test
               /\ Advance
               /\ UNCHANGED <<nbDatasets, nbObjects, nb_cv, nb_best, nb_filters>>
          ELSE Halt(out.status)
    /\ UNCHANGED <<nbInput, nbRest>>

\* removal of names from a binding
Unbind(env, names) == [v \in (DOMAIN env) \ names |-> env[v]]

\* obj = Class(...): the name now refers to a new, unfitted object
NbConstruct ==
    /\ At("Construct")
    /\ IF ConstructOutcome(Cur.params) # "constructed"
       THEN Halt(ConstructOutcome(Cur.params))
       ELSE /\ nb_conf' = Bind(nb_conf, {Cur.obj},
                               [class |-> Cur.name, params |-> Cur.params,
                                est |-> Cur.est, line |-> Cur.line])
            /\ nb_prep' = Unbind(nb_prep, {Cur.obj})
            /\ nb_prepCols' = Unbind(nb_prepCols, {Cur.obj})
            /\ nb_est' = Unbind(nb_est, {Cur.obj})
            /\ nb_estCols' = Unbind(nb_estCols, {Cur.obj})
            /\ Advance
            /\ UNCHANGED <<nbTables, nbDatasets, nbSplits, nb_cv, nb_best, nb_filters>>
    /\ UNCHANGED <<nbInput, nbRest>>

\* scaler.fit(X) / pca.fit(X): parameters computed from the rows of X
NbPrepFit ==
    /\ At("PrepFit")
    /\ nb_prep' = Bind(nb_prep, {Cur.obj}, nb_env[Cur.src[1]])
    /\ nb_prepCols' = Bind(nb_prepCols, {Cur.obj}, nb_cols[Cur.src[1]])
    /\ Advance
    /\ UNCHANGED <<nbInput, nbTables, nbDatasets, nb_conf, nb_est,
                   nb_estCols, nbSplits, nb_cv, nb_best, nb_filters, nbRest>>

\* the columns a preprocessor's transform returns, an ndarray: as many as
\* it was given, but n_components of them from a PCA
TransformCols(obj, cols) ==
    IF obj \in DOMAIN nb_conf /\ nb_conf[obj].class = "PCA"
    THEN PosCols(nb_conf[obj].params.n_components)
    ELSE PosCols(Cardinality(cols))

\* how preprocessor obj takes a transform of the table named x
TransformCheck(obj, x) ==
    TransformOutcome(obj \in DOMAIN nb_prep,
                     IF obj \in DOMAIN nb_prepCols
                     THEN nb_prepCols[obj] ELSE {},
                     nb_cols[x])

\* scaler.transform(X) / pca.transform(X): the rows of X, rescaled
NbPrepTransform ==
    /\ At("PrepTransform")
    /\ IF TransformCheck(Cur.obj, Cur.src[1]) # "ok"
       THEN Halt(TransformCheck(Cur.obj, Cur.src[1]))
       ELSE /\ nb_ord' = Orders(Cur) @@ nb_ord
            /\ nb_env' = Bind(nb_env, Range(Cur.dst), nb_env[Cur.src[1]])
            /\ nb_cols' = Bind(nb_cols, Range(Cur.dst),
                               TransformCols(Cur.obj, nb_cols[Cur.src[1]]))
            /\ nb_obj' = Bind(nb_obj, Range(Cur.dst), 0)
            /\ Advance
            /\ UNCHANGED <<nbDatasets, nbObjects, nbSplits, nb_cv, nb_best,
                           nb_filters>>
    /\ UNCHANGED <<nbInput, nbRest>>

\* X_train = feature_scaler.fit_transform(X_train): fit, then transform
NbPrepFitTransform ==
    /\ At("PrepFitTransform")
    /\ nb_prep' = Bind(nb_prep, {Cur.obj}, nb_env[Cur.src[1]])
    /\ nb_prepCols' = Bind(nb_prepCols, {Cur.obj}, nb_cols[Cur.src[1]])
    /\ nb_ord' = Orders(Cur) @@ nb_ord
    /\ nb_env' = Bind(nb_env, Range(Cur.dst), nb_env[Cur.src[1]])
    /\ nb_cols' = Bind(nb_cols, Range(Cur.dst),
                       TransformCols(Cur.obj, nb_cols[Cur.src[1]]))
    /\ nb_obj' = Bind(nb_obj, Range(Cur.dst), 0)
    /\ Advance
    /\ UNCHANGED <<nbInput, nbDatasets, nb_conf, nb_est, nb_estCols,
                   nbSplits, nb_cv, nb_best, nb_filters, nbRest>>

\* a slip: a cross-validated call fitting the estimator it was handed
FittedBy_inPlace(st) ==
    IF st.op \in {"CrossVal", "Search"} THEN {st.obj, st.est} ELSE {st.obj}

\* the objects a call leaves fitted: fit and GridSearchCV.fit the object
\* they are called on; cross_val_score, GridSearchCV and RFE fit clones of
\* the estimator they are handed
FittedBy(st) == IF st.op = "CrossVal" THEN {} ELSE {st.obj}

\* estimator.fit(X, y)
NbFit ==
    /\ At("Fit")
    /\ nb_est' = Bind(nb_est, FittedBy(Cur), nb_env[Cur.src[1]])
    /\ nb_estCols' = Bind(nb_estCols, FittedBy(Cur), nb_cols[Cur.src[1]])
    /\ Advance
    /\ UNCHANGED <<nbInput, nbTables, nbDatasets, nb_conf, nb_prep,
                   nb_prepCols, nbSplits, nb_cv, nb_best, nb_filters, nbRest>>

\* how estimator obj takes a predict-type call on the table named x
PredictCheck(obj, x) ==
    PredictOutcome(obj \in DOMAIN nb_est,
                   IF obj \in DOMAIN nb_estCols THEN nb_estCols[obj] ELSE {},
                   nb_cols[x])

\* y_pred = estimator.predict(X): one label per row of X
NbPredict ==
    /\ At("Predict")
    /\ IF PredictCheck(Cur.obj, Cur.src[1]) # "ok"
       THEN Halt(PredictCheck(Cur.obj, Cur.src[1]))
       ELSE /\ nb_ord' = Orders(Cur) @@ nb_ord
            /\ nb_env' = Bind(nb_env, Range(Cur.dst), nb_env[Cur.src[1]])
            /\ nb_cols' = Bind(nb_cols, Range(Cur.dst), {})
            /\ nb_obj' = Bind(nb_obj, Range(Cur.dst), 0)
            /\ Advance
            /\ UNCHANGED <<nbDatasets, nbObjects, nbSplits, nb_cv, nb_best,
                           nb_filters>>
    /\ UNCHANGED <<nbInput, nbRest>>

\* estimator.predict_proba(X): one row of class probabilities per row of X
NbPredictProba ==
    /\ At("PredictProba")
    /\ IF PredictCheck(Cur.obj, Cur.src[1]) # "ok"
       THEN Halt(PredictCheck(Cur.obj, Cur.src[1]))
       ELSE /\ nb_ord' = Orders(Cur) @@ nb_ord
            /\ nb_env' = Bind(nb_env, Range(Cur.dst), nb_env[Cur.src[1]])
            /\ nb_cols' = Bind(nb_cols, Range(Cur.dst), {})
            /\ nb_obj' = Bind(nb_obj, Range(Cur.dst), 0)
            /\ Advance
            /\ UNCHANGED <<nbDatasets, nbObjects, nbSplits, nb_cv, nb_best,
                           nb_filters>>
    /\ UNCHANGED <<nbInput, nbRest>>

\* estimator.score(X, y)
NbScore ==
    /\ At("Score")
    /\ IF PredictCheck(Cur.obj, Cur.src[1]) # "ok"
       THEN Halt(PredictCheck(Cur.obj, Cur.src[1]))
       ELSE /\ Advance
            /\ UNCHANGED <<nbTables, nbDatasets, nbObjects, nbSplits, nb_cv, nb_best,
                           nb_filters>>
    /\ UNCHANGED <<nbInput, nbRest>>

\* a metric function of sklearn.metrics on (y_true, y_pred)
NbEvaluate ==
    /\ At("Evaluate")
    /\ Advance
    /\ UNCHANGED <<nbInput, nbTables, nbDatasets, nbObjects, nbSplits, nb_cv, nb_best,
                   nb_filters, nbRest>>

\* the row labels a pandas object carries: the positions its rows have in
\* their file (the rows of adult_test.csv are numbered after the training
\* file's in nb_env)
RowLabels(t) == {IF r >= nb_n THEN r - nb_n ELSE r : r \in nb_env[t]}

\* whether series[label] finds an element: by row label in a Series that
\* carries integer row labels, by position in an array
LookupOutcome(t, label) ==
    IF nb_ord[t].index = "labels"
    THEN IF label \in RowLabels(t) THEN "ok" ELSE "KeyError"
    ELSE IF 0 <= label /\ label < Cardinality(nb_env[t]) THEN "ok"
    ELSE "IndexError"

\* type(y_test[0]): the lookup raises when nothing is found
NbLookup ==
    /\ At("Lookup")
    /\ IF LookupOutcome(Cur.src[1], Cur.label) # "ok"
       THEN Halt(LookupOutcome(Cur.src[1], Cur.label))
       ELSE /\ Advance
            /\ UNCHANGED <<nbTables, nbDatasets, nbObjects, nbSplits, nb_cv,
                           nb_best, nb_filters>>
    /\ UNCHANGED <<nbInput, nbRest>>

\* the record kept of a cross-validated call
CvCall == [line |-> Cur.line, rows |-> nb_env[Cur.src[1]], cv |-> Cur.cv]

\* cross_val_score(estimator, X, y, cv=k): clones are fitted, the
\* estimator passed stays as it was; fewer than k rows cannot be split
NbCrossVal ==
    /\ At("CrossVal")
    /\ IF Cardinality(nb_env[Cur.src[1]]) < Cur.cv
       THEN Halt("ValueError")
       ELSE /\ nb_cv' = Append(nb_cv, CvCall)
            /\ nb_est' = Bind(nb_est, FittedBy(Cur), nb_env[Cur.src[1]])
            /\ nb_estCols' = Bind(nb_estCols, FittedBy(Cur),
                                  nb_cols[Cur.src[1]])
            /\ Advance
            /\ UNCHANGED <<nbTables, nbDatasets, nb_conf, nb_prep,
                           nb_prepCols, nbSplits, nb_filters, nb_best>>
    /\ UNCHANGED <<nbInput, nbRest>>

\* GridSearchCV(...).fit(X, y): every grid point configures a clone of the
\* estimator; the folds of X, then the refit on all of X with the grid
\* point whose mean score ranks first, which the scores decide
NbSearch ==
    /\ At("Search")
    /\ IF \E g \in Cur.grid : ConstructOutcome(g) # "constructed"
       THEN Halt("InvalidParameter")
       ELSE IF Cardinality(nb_env[Cur.src[1]]) < Cur.cv
       THEN Halt("ValueError")
       ELSE /\ nb_cv' = Append(nb_cv, CvCall)
            /\ nb_est' = Bind(nb_est, FittedBy(Cur), nb_env[Cur.src[1]])
            /\ nb_estCols' = Bind(nb_estCols, FittedBy(Cur),
                                  nb_cols[Cur.src[1]])
            /\ \E g \in Cur.grid : nb_best' = Bind(nb_best, {Cur.obj}, g)
            /\ Advance
            /\ UNCHANGED <<nbTables, nbDatasets, nb_conf, nb_prep,
                           nb_prepCols, nbSplits, nb_filters>>
    /\ UNCHANGED <<nbInput, nbRest>>

NbNext ==
    \/ NbFilter
    \/ NbLoad
    \/ NbDerive
    \/ NbConcat
    \/ NbSplit
    \/ NbConstruct
    \/ NbPrepFit
    \/ NbPrepTransform
    \/ NbPrepFitTransform
    \/ NbFit
    \/ NbPredict
    \/ NbPredictProba
    \/ NbScore
    \/ NbEvaluate
    \/ NbLookup
    \/ NbCrossVal
    \/ NbSearch

SpecNb == NbInit /\ [][NbNext]_vars

(***************************************************************************)
(* SpecApi: the life of one estimator or preprocessor object under calls  *)
(* no notebook makes: a constructor handed any hyperparameters, predict   *)
(* and transform before fit or on tables of other columns.                *)
(***************************************************************************)
MaxApiRows == 2

\* keyword arguments a constructor may be handed
ParamSpace ==
    [max_depth : {0, 1, 5}, min_samples_leaf : {0, 1},
     criterion : {"gini", "entropy", "log_loss"}, n_estimators : {0, 100},
     learning_rate : {<<0, 1>>, <<1, 10>>}]

\* column lists a table may have
ApiColumns == SUBSET {"a", "b", "c"}

ApiInit ==
    /\ api_kind \in {"estimator", "preprocessor"}
    /\ api_state = "new"
    /\ api_params = <<>>
    /\ api_fitCols = {}
    /\ api_out = NoValue
    /\ SplitIdle
    /\ EvalIdle
    /\ FrameIdle
    /\ SearchIdle
    /\ NbIdle
    /\ CvIdle

apiRest == <<splitVars, evalVars, frameVars, searchVars, nbVars, cvVars>>

\* obj = Class(**p)
ApiConstruct ==
    /\ api_state = "new"
    /\ api_kind = "estimator"
    /\ \E p \in ParamSpace :
          /\ api_params' = p
          /\ api_state' = IF ConstructOutcome(p) = "constructed"
                          THEN "constructed" ELSE "rejected"
          /\ api_out' = [call |-> "construct", status |-> ConstructOutcome(p),
                         rows |-> 0, cols |-> {}, values |-> <<>>]
    /\ UNCHANGED <<api_kind, api_fitCols, apiRest>>

\* scaler = StandardScaler(): no hyperparameters
ApiConstructPreprocessor ==
    /\ api_state = "new"
    /\ api_kind = "preprocessor"
    /\ api_state' = "constructed"
    /\ api_out' = [call |-> "construct", status |-> "constructed",
                   rows |-> 0, cols |-> {}, values |-> <<>>]
    /\ UNCHANGED <<api_kind, api_params, api_fitCols, apiRest>>

\* obj.fit(X, ...)
ApiFit ==
    /\ api_state \in {"constructed", "fitted"}
    /\ \E cols \in ApiColumns, n \in 1..MaxApiRows :
          /\ api_fitCols' = cols
          /\ api_state' = "fitted"
          /\ api_out' = [call |-> "fit", status |-> "ok", rows |-> n,
                         cols |-> cols, values |-> <<>>]
    /\ UNCHANGED <<api_kind, api_params, apiRest>>

\* estimator.predict(X): a label for each row, or the error and nothing
ApiPredict ==
    /\ api_kind = "estimator"
    /\ api_state \in {"constructed", "fitted"}
    /\ \E cols \in ApiColumns, n \in 1..MaxApiRows :
          LET status == PredictOutcome(api_state = "fitted", api_fitCols,
                                       cols)
          IN  \E labels \in IF status = "ok" THEN [1..n -> Classes]
                            ELSE {<<>>} :
                 api_out' = [call |-> "predict", status |-> status,
                             rows |-> n, cols |-> cols, values |-> labels]
    /\ UNCHANGED <<api_kind, api_state, api_params, api_fitCols, apiRest>>

\* preprocessor.transform(X): a row for each row, or the error and nothing
ApiTransform ==
    /\ api_kind = "preprocessor"
    /\ api_state \in {"constructed", "fitted"}
    /\ \E cols \in ApiColumns, n \in 1..MaxApiRows :
          LET status == TransformOutcome(api_state = "fitted", api_fitCols,
                                         cols)
          IN  api_out' = [call |-> "transform", status |-> status,
                          rows |-> n, cols |-> cols,
                          values |-> IF status = "ok"
                                     THEN [r \in 1..n |-> r] ELSE <<>>]
    /\ UNCHANGED <<api_kind, api_state, api_params, api_fitCols, apiRest>>

ApiNext ==
    \/ ApiConstruct
    \/ ApiConstructPreprocessor
    \/ ApiFit
    \/ ApiPredict
    \/ ApiTransform

SpecApi == ApiInit /\ [][ApiNext]_vars

\* the notebooks' runs together with the calls no notebook makes
SpecNbApi == (NbInit \/ ApiInit) /\ [][NbNext \/ ApiNext]_vars

(***************************************************************************)
(* SpecStrat: one stratified call of the Splitter,                        *)
(* train_test_split(X, y, test_size=f, stratify=labels), on any table     *)
(* of two classes and any fraction.                                       *)
(***************************************************************************)
MaxStratRows == 8

StratInit ==
    /\ sp_n \in 1..MaxStratRows
    /\ sp_f \in TestSizes
    /\ sp_y \in TargetColumns(sp_n)
    /\ sp_out = NoSplit
    /\ EvalIdle
    /\ FrameIdle
    /\ SearchIdle
    /\ NbIdle
    /\ CvIdle
    /\ ApiIdle

StratCall ==
    /\ sp_out.status = "none"
    /\ sp_out' \in StratifiedSplitRows(0..(sp_n - 1), sp_y, sp_f)
    /\ UNCHANGED <<sp_n, sp_f, sp_y, evalVars, frameVars, searchVars, nbVars, cvVars,
                   apiVars>>

SpecStrat == StratInit /\ [][StratCall]_vars

(***************************************************************************)
(* SpecCV: the folds of one cross-validated call.  cross_val_score and    *)
(* GridSearchCV.fit compute the folds of the X, y they are passed once;   *)
(* every model of fold i is fitted on the positions outside fold i.       *)
(***************************************************************************)
MaxCvRows == 8

\* KFold._iter_test_indices: the first n % k folds hold n // k + 1
\* positions, the others n // k, taken in order from `indices`
FoldSize(n, k, i) == n \div k + (IF i < n % k THEN 1 ELSE 0)

\* a slip: every fold starting at a multiple of n // k
FoldStart_noRemainder(n, k, i) == i * (n \div k)

FoldStart(n, k, i) == i * (n \div k) + (IF i < n % k THEN i ELSE n % k)

\* np.arange(n), as a sequence
Arange(n) == [j \in 1..n |-> j - 1]

\* KFold(n_splits=k).split(X): fold -> test positions; `indices` is
\* np.arange(n), shuffled when shuffle=True
KFoldSplit(n, k, indices) ==
    [i \in 0..(k - 1) |->
        {indices[j + 1] :
            j \in FoldStart(n, k, i)..(FoldStart(n, k, i) + FoldSize(n, k, i) - 1)}]

\* StratifiedKFold._make_test_folds: classes are numbered by first
\* appearance, the sorted encoded labels are dealt to the folds in turn
\* (allocation), and the members of a class, in order, fill fold 0's
\* share, then fold 1's, ...
FirstPos(y, c) == CHOOSE p \in DOMAIN y : y[p] = c /\ \A q \in DOMAIN y : y[q] = c => p <= q

ClassOffset(y, c) ==
    Cardinality({p \in DOMAIN y : FirstPos(y, y[p]) < FirstPos(y, c)})

Allocation(y, k, i, c) ==
    LET cnt == Cardinality({p \in DOMAIN y : y[p] = c})
    IN  Cardinality({j \in ClassOffset(y, c)..(ClassOffset(y, c) + cnt - 1) :
                        j % k = i})

RECURSIVE AllocatedBefore(_, _, _, _)
AllocatedBefore(y, k, i, c) ==
    IF i = 0 THEN 0
    ELSE AllocatedBefore(y, k, i - 1, c) + Allocation(y, k, i - 1, c)

RankInClass(y, p) == Cardinality({q \in DOMAIN y : y[q] = y[p] /\ q < p})

StratifiedKFoldSplit(y, k) ==
    [i \in 0..(k - 1) |->
        {p \in DOMAIN y :
            /\ AllocatedBefore(y, k, i, y[p]) <= RankInClass(y, p)
            /\ RankInClass(y, p) < AllocatedBefore(y, k, i + 1, y[p])}]

\* the splitters' argument checks
KFoldRejects(n, k) == k > n

StratifiedKFoldRejects(y, k) ==
    \/ k > Cardinality(DOMAIN y)
    \/ \A c \in Range(y) : k > Cardinality({p \in DOMAIN y : y[p] = c})

\* the cross-validated calls of the notebooks
\*   f       test_size of the split that made X_train
\*   data    what is passed as X: "train", or "train+test" (the
\*           concatenation of X_train and X_test)
\*   cv      an int, or the KFold object passed
\*   jobs    "parallel" with n_jobs=-1, else "serial"
CvSite(name) ==
    CASE name = "wine_cross_val_score" ->
            [line |-> 165, call |-> "cross_val_score", k |-> WineCv,
             cv |-> "int", f |-> <<1, 5>>, data |-> "train+test",
             jobs |-> "serial"]
      [] name = "wine_grid_search" ->
            [line |-> 266, call |-> "GridSearchCV", k |-> WineCv,
             cv |-> "int", f |-> <<1, 5>>, data |-> "train",
             jobs |-> "parallel"]
      [] name = "mushroom_grid_search" ->
            [line |-> 505, call |-> "GridSearchCV", k |-> MushroomCv,
             cv |-> "int", f |-> <<1, 5>>, data |-> "train",
             jobs |-> "parallel"]
      [] name = "regression_grid_search" ->
            [line |-> 307, call |-> "GridSearchCV", k |-> RegressionCv,
             cv |-> "KFold_shuffle", f |-> <<3, 10>>, data |-> "train",
             jobs |-> "serial"]

CvSites ==
    {"wine_cross_val_score", "wine_grid_search", "mushroom_grid_search",
     "regression_grid_search"}

\* the X passed, for a dataset of n rows: X_train, or X_train followed by
\* X_test
TagsOf(site, n) ==
    LET ntr == NTrain(n, site.f)
        len == IF site.data = "train" THEN ntr ELSE n
    IN  [p \in 0..(len - 1) |-> IF p < ntr THEN "train" ELSE "test"]

CvInit ==
    /\ cv_site \in CvSites
    /\ \E n \in 2..MaxCvRows :
          /\ NTrain(n, CvSite(cv_site).f) > 0
          /\ cv_tags = TagsOf(CvSite(cv_site), n)
    /\ cv_y \in IF CvSite(cv_site).cv = "int"
                THEN [DOMAIN cv_tags -> {0, 1}]
                ELSE {[p \in DOMAIN cv_tags |-> 0]}
    /\ cv_status = "called"
    /\ cv_folds = <<>>
    /\ cv_trained = <<>>
    /\ SplitIdle
    /\ EvalIdle
    /\ FrameIdle
    /\ SearchIdle
    /\ NbIdle
    /\ ApiIdle

\* check_cv(cv, y, classifier=is_classifier(estimator)): an int cv gives
\* StratifiedKFold for a classifier and KFold otherwise.  The estimators
\* come from sasviya.ml, whose is_classifier answer is not in the
\* repository, so either may be built.  A KFold object is used as given.
CvFoldings ==
    LET n == Cardinality(DOMAIN cv_tags)
        k == CvSite(cv_site).k
    IN  IF CvSite(cv_site).cv = "int"
        THEN {IF KFoldRejects(n, k)
              THEN [status |-> "ValueError", folds |-> <<>>]
              ELSE [status |-> "split", folds |-> KFoldSplit(n, k, Arange(n))],
              IF StratifiedKFoldRejects(cv_y, k)
              THEN [status |-> "ValueError", folds |-> <<>>]
              ELSE [status |-> "split", folds |-> StratifiedKFoldSplit(cv_y, k)]}
        ELSE IF KFoldRejects(n, k)
        THEN {[status |-> "ValueError", folds |-> <<>>]}
        ELSE {[status |-> "split", folds |-> KFoldSplit(n, k, indices)] :
                 indices \in Permutations0(n)}

\* list(cv.split(X, y))
CvSplit ==
    /\ cv_status = "called"
    /\ \E r \in CvFoldings :
          /\ cv_status' = r.status
          /\ cv_folds' = r.folds
    /\ UNCHANGED <<cv_site, cv_tags, cv_y, cv_trained,
                   splitVars, evalVars, frameVars, searchVars, nbVars, apiVars>>

\* _fit_and_score(clone(estimator), X, y, train=indices[~test_mask], ...):
\* the fits of fold i; serial calls take the folds in order
CvFitFold(i) ==
    /\ cv_status = "split"
    /\ i \notin DOMAIN cv_trained
    /\ CvSite(cv_site).jobs = "serial"
          => \A j \in 0..(i - 1) : j \in DOMAIN cv_trained
    /\ cv_trained' = Bind(cv_trained, {i}, (DOMAIN cv_tags) \ cv_folds[i])
    /\ UNCHANGED <<cv_site, cv_tags, cv_y, cv_status, cv_folds,
                   splitVars, evalVars, frameVars, searchVars, nbVars, apiVars>>

CvNext ==
    \/ CvSplit
    \/ \E i \in DOMAIN cv_folds : CvFitFold(i)

SpecCV == CvInit /\ [][CvNext]_vars

(***************************************************************************)
(* Claims about the Splitter on its own (SpecSplit).                      *)
(***************************************************************************)
SplitIsPartition ==
    /\ Range(sp_out.train) \cap Range(sp_out.test) = {}
    /\ Range(sp_out.train) \cup Range(sp_out.test) = 0..(sp_n - 1)
    /\ Len(sp_out.train) + Len(sp_out.test) = sp_n
    /\ Abs(Len(sp_out.test) - RoundHalfEven(sp_f[1] * sp_n, sp_f[2])) <= 1

\* C2 as stated: for every fraction f in (0,1) and every n, the Splitter
\* returns a train and a test subset that are disjoint, cover all n rows,
\* and the test size is within 1 of round(f * n).
C2_Original ==
    sp_out.status # "none" => (sp_out.status = "ok" /\ SplitIsPartition)

\* C2 as amended: when ceil(f * n) < n the Splitter returns a train and a
\* test subset that are disjoint, cover all n rows, with the test size
\* within 1 of round(f * n); when ceil(f * n) = n (the train subset would
\* be empty, as for n = 1) it raises an error and returns no subset.
C2_SplitPartition ==
    sp_out.status # "none" =>
        IF CeilDiv(sp_f[1] * sp_n, sp_f[2]) < sp_n
        THEN sp_out.status = "ok" /\ SplitIsPartition
        ELSE sp_out.status = "ValueError" /\ sp_out.train = <<>>
                                         /\ sp_out.test = <<>>

\* a split that returned, with a test size that is not round(f * n)
C2_Witness ==
    /\ sp_out.status = "ok"
    /\ Len(sp_out.train) >= 2
    /\ Len(sp_out.test) = RoundHalfEven(sp_f[1] * sp_n, sp_f[2]) + 1

(***************************************************************************)
(* Claims about the Evaluator on its own (SpecEval).                      *)
(***************************************************************************)
CountTrue(c) == Cardinality({k \in DOMAIN ev_true : ev_true[k] = c})

CountPred(c) == Cardinality({k \in DOMAIN ev_pred : ev_pred[k] = c})

CountBoth(c) ==
    Cardinality({k \in DOMAIN ev_true : ev_true[k] = c /\ ev_pred[k] = c})

RatioEq(a, b) == a[1] * b[2] = b[1] * a[2]

RatioIsZero(a) == a[1] = 0

\* C9: for every pair of label vectors of equal length, each row sum of
\* the confusion matrix is the number of true labels of that class (a
\* class with true labels has a row), and the sum of all cells is the
\* number of evaluated rows.
C9_ConfusionMatrixSums ==
    ev_cm.status = "ok" =>
        /\ \A c \in Classes :
              IF c \in DOMAIN ev_cm.cm
              THEN RowSum(ev_cm.cm, c) = CountTrue(c)
              ELSE CountTrue(c) = 0
        /\ CellSum(ev_cm.cm) = Len(ev_true)

\* a matrix with a wrong prediction and a class that is only predicted
C9_Witness ==
    /\ ev_cm.status = "ok"
    /\ \E i, j \in DOMAIN ev_cm.cm :
          i # j /\ ev_cm.cm[i][j] > 0 /\ CountTrue(j) = 0

\* C10: for each class of the report, precision is TP / (TP + FP) and
\* recall is TP / (TP + FN), each reported as 0 where its denominator is
\* 0; F1 is the harmonic mean of the two, and 0 when both are 0, also
\* for a class without predicted members.
C10_ReportRatios ==
    ev_report.status = "ok" =>
        \A c \in DOMAIN ev_report.rows :
            LET r == ev_report.rows[c]
                tp == CountBoth(c)
                fp == CountPred(c) - tp
                fn == CountTrue(c) - tp
            IN  /\ r.precision[2] > 0 /\ r.recall[2] > 0 /\ r.f1[2] > 0
                /\ IF tp + fp > 0
                   THEN RatioEq(r.precision, <<tp, tp + fp>>)
                   ELSE RatioIsZero(r.precision)
                /\ IF tp + fn > 0
                   THEN RatioEq(r.recall, <<tp, tp + fn>>)
                   ELSE RatioIsZero(r.recall)
                /\ IF RatioIsZero(r.precision) /\ RatioIsZero(r.recall)
                   THEN RatioIsZero(r.f1)
                   ELSE \* f1 * (p + r) = 2 * p * r
                        r.f1[1] * (r.precision[1] * r.recall[2]
                                   + r.recall[1] * r.precision[2])
                          * r.precision[2] * r.recall[2]
                        = 2 * r.precision[1] * r.recall[1] * r.f1[2]
                            * r.precision[2] * r.recall[2]

\* a report with a class that has true members but no predicted member
\* (F1 reported as 0) next to a class with a non-trivial F1
C10_Witness ==
    /\ ev_report.status = "ok"
    /\ \E c \in DOMAIN ev_report.rows :
          CountPred(c) = 0 /\ CountTrue(c) > 0
          /\ RatioIsZero(ev_report.rows[c].f1)
    /\ \E c \in DOMAIN ev_report.rows :
          /\ ~RatioIsZero(ev_report.rows[c].f1)
          /\ ~RatioEq(ev_report.rows[c].precision, ev_report.rows[c].recall)

(***************************************************************************)
(* Claims about the Hyperparameter Search (SpecSearch).                   *)
(***************************************************************************)
\* the sum of the fold scores the tasks of candidate c computed
FoldScoreSum(c) == SumOver(gs_made, TasksOf(gs_cfg, c))

\* C5: the search reports the candidate whose average fold score is
\* maximal, and among several candidates of maximal average the one that
\* comes first in grid order; the reported averages are the averages of
\* the candidates' k fold scores.
C5_BestIsFirstMaximum ==
    gs_phase = "done" =>
        LET best == gs_result.best_index
            n == NCandidates(gs_cfg)
        IN  /\ best \in 1..n
            /\ gs_result.best_params = gs_cfg.grid[best]
            /\ \A c \in 1..n :
                  /\ gs_result.mean_test_score[c][2] = gs_cfg.cv
                  /\ gs_result.mean_test_score[c][1] = FoldScoreSum(c)
            /\ \A c \in 1..n : FoldScoreSum(c) <= FoldScoreSum(best)
            /\ \A c \in 1..(best - 1) : FoldScoreSum(c) < FoldScoreSum(best)

\* a finished search in which the first two candidates tie at a
\* non-zero maximal average and the first of them is reported
C5_Witness ==
    /\ gs_phase = "done"
    /\ NCandidates(gs_cfg) >= 2
    /\ FoldScoreSum(1) = FoldScoreSum(2)
    /\ FoldScoreSum(1) > 0
    /\ gs_result.best_index = 1

\* C6 as stated: a search over 2 candidates with 5 folds performs exactly
\* 10 fits between the call and its return (in general |grid| * k).
C6_Original ==
    gs_phase = "done" => gs_fits = NCandidates(gs_cfg) * gs_cfg.cv

\* C6 as amended: between the call and its return the search performs
\* |grid| * k cross-validation fits, one per (candidate, fold), and then
\* one more fit, the refit of the winning candidate on the whole training
\* set: |grid| * k + 1 in all, 11 for 2 candidates and 5 folds.
C6_FitsWithRefit ==
    /\ gs_phase = "running" =>
          /\ gs_fits = Cardinality(DOMAIN gs_made)
          /\ gs_fits <= NCandidates(gs_cfg) * gs_cfg.cv
    /\ gs_phase = "done" =>
          /\ gs_result.refitted
          /\ gs_fits = NCandidates(gs_cfg) * gs_cfg.cv + 1
          /\ (NCandidates(gs_cfg) = 2 /\ gs_cfg.cv = 5) => gs_fits = 11

\* the wine search (2 candidates, 5 folds) has returned
C6_Witness ==
    /\ gs_phase = "done"
    /\ gs_cfg = WineSearch
    /\ gs_fits = 11

\* C8: in a parallel search the averages and the selected candidate are,
\* for every completion order of the tasks, those of the scores the tasks
\* computed taken in submission order (what a sequential run yields), and
\* a task's result occupies its own position of `out` and no other.
C8_OrderIndependent ==
    /\ DOMAIN gs_out = DOMAIN gs_made
    /\ \A t \in DOMAIN gs_made : gs_out[t] = gs_made[t]
    /\ gs_phase = "done" =>
          /\ gs_result.mean_test_score =
                [c \in 1..NCandidates(gs_cfg) |-> <<FoldScoreSum(c), gs_cfg.cv>>]
          /\ gs_result.best_index =
                BestIndex([c \in 1..NCandidates(gs_cfg) |->
                              <<FoldScoreSum(c), gs_cfg.cv>>])

\* a parallel search that returned after tasks finished out of order,
\* with fold scores that differ within and between candidates
C8_Witness ==
    /\ gs_phase = "done"
    /\ gs_cfg.parallel
    /\ gs_ooo
    /\ NCandidates(gs_cfg) >= 2
    /\ FoldScoreSum(1) < FoldScoreSum(2)
    /\ \E t, u \in TasksOf(gs_cfg, 2) : gs_made[t] # gs_made[u]

(***************************************************************************)
(* Claims about the notebook runs (SpecNb).                               *)
(***************************************************************************)
\* C1: whenever a preprocessor (StandardScaler, PCA) holds fitted
\* parameters, no row of a held-out test subset is among the rows the
\* parameters were computed from.
C1_FitOnTrainingRowsOnly ==
    \A p \in DOMAIN nb_prep : nb_prep[p] \cap nb_held = {}

SplitsRun == {i \in 1..Len(Executed) : Executed[i].op = "Split"}

SameSplitCall(a, b) ==
    /\ a.seed = b.seed
    /\ a.f = b.f
    /\ StratLabels(a) = StratLabels(b)
    /\ Cardinality(nb_env[a.src[1]]) = Cardinality(nb_env[b.src[1]])

SameSplitResult(a, b) ==
    /\ nb_env[a.dst[1]] = nb_env[b.dst[1]]
    /\ nb_env[a.dst[2]] = nb_env[b.dst[2]]

\* C3: two runs of the Splitter with the same seed, fraction, stratify
\* labels and row count select the same rows for train and the same rows
\* for test; in particular the two seed-42 splits of the mushroom notebook
\* put the same original rows in X_test_scaled and in X_test_pca.
C3_SplitDeterministic ==
    /\ \A i, j \in SplitsRun :
          SameSplitCall(Executed[i], Executed[j])
              => SameSplitResult(Executed[i], Executed[j])
    /\ (nb = "mushroom" /\ "X_test_pca" \in DOMAIN nb_env)
          => /\ nb_env["X_test_pca"] = nb_env["X_test_scaled"]
             /\ nb_env["X_train_pca"] = nb_env["X_train_scaled"]

\* a mushroom run past its second split, on a table with both classes,
\* where the generator had more than one way to draw the test rows
C3_Witness ==
    /\ nb = "mushroom"
    /\ Cardinality(SplitsRun) = 2
    /\ Range(nb_y) = {0, 1}
    /\ nb_env["X_test_pca"] # {}
    /\ Cardinality(SplitOutcomes(MushroomSplitScaled)) > 1

\* C4: the stages run in the order Loader, Splitter, (Preprocessor),
\* Estimator.fit, Estimator.predict, Evaluator: a Splitter step follows a
\* Loader step, no Preprocessor fit or transform runs before a Splitter
\* step, and no metric is computed before the predict whose output it
\* reads.
C4_StageOrder ==
    \A i \in 1..Len(Executed) :
        /\ StageOf(Executed[i].op) = "Splitter"
              => \E j \in 1..(i - 1) : StageOf(Executed[j].op) = "Loader"
        /\ StageOf(Executed[i].op) = "Preprocessor"
              => \E j \in 1..(i - 1) : StageOf(Executed[j].op) = "Splitter"
        /\ Executed[i].op = "Evaluate"
              => \E j \in 1..(i - 1) :
                    /\ StageOf(Executed[j].op) = "EstimatorPredict"
                    /\ Executed[i].src[2] \in Range(Executed[j].dst)

(***************************************************************************)
(* Claims about the cross-validation folds (SpecCV).                      *)
(***************************************************************************)
FoldsPartitionData ==
    /\ \A i, j \in DOMAIN cv_folds :
          i # j => cv_folds[i] \cap cv_folds[j] = {}
    /\ UNION {cv_folds[i] : i \in DOMAIN cv_folds} = DOMAIN cv_tags
    /\ Cardinality(DOMAIN cv_folds) = CvSite(cv_site).k

TrainedOnOtherFolds ==
    \A i \in DOMAIN cv_trained :
        cv_trained[i] = UNION {cv_folds[j] : j \in (DOMAIN cv_folds) \ {i}}

TestRowsInFolds ==
    {p \in DOMAIN cv_tags :
        cv_tags[p] = "test" /\ \E i \in DOMAIN cv_folds : p \in cv_folds[i]}

RocCalls ==
    {i \in 1..Len(Executed) :
        /\ Executed[i].op = "Evaluate"
        /\ Executed[i].obj \in {"roc_curve", "roc_auc_score"}}

\* the statement that last assigned variable v before statement i ran
\* (0 when none did)
LastWriter(i, v) ==
    LET ws == {j \in 1..(i - 1) : v \in Range(Executed[j].dst)}
    IN  IF ws = {} THEN 0 ELSE CHOOSE j \in ws : \A k \in ws : k <= j

\* C11: every ROC curve / AUC a notebook computes takes as its scores the
\* output of predict_proba (probabilities of the positive class), never
\* the hard labels returned by predict.
C11_RocFromProbabilities ==
    \A i \in RocCalls :
        /\ LastWriter(i, Executed[i].src[2]) # 0
        /\ Executed[LastWriter(i, Executed[i].src[2])].op = "PredictProba"

(***************************************************************************)
(* Claims about the order of the classes in a confusion matrix (SpecEval) *)
(***************************************************************************)
\* cell [i][j] counts the samples of true class order[i] predicted order[j]
ArrayFollows(order) ==
    /\ DOMAIN ev_cm.array = DOMAIN order
    /\ \A i, j \in DOMAIN order :
          ev_cm.array[i][j] =
             Cardinality({k \in DOMAIN ev_true :
                             ev_true[k] = order[i] /\ ev_pred[k] = order[j]})

\* C12 as stated: row i and column i of a confusion matrix count the i-th
\* class in order of first appearance in the evaluated labels.
C12_Original ==
    ev_cm.status = "ok" => ArrayFollows(FirstAppearance(ev_true, ev_pred))

\* C12, amended: row i and column i of a confusion matrix count the i-th
\* class in ascending order of the label values that occur in y_true or
\* y_pred (no notebook passes labels=).
C12_SortedClassOrder ==
    ev_cm.status = "ok"
        => \E order \in [DOMAIN ev_cm.array -> Classes] :
              /\ Range(order) = Range(ev_true) \cup Range(ev_pred)
              /\ \A i, j \in DOMAIN order : i < j => order[i] < order[j]
              /\ ArrayFollows(order)

\* a matrix of labels that first appear in descending order, with
\* different counts on the diagonal
C12_Witness ==
    /\ ev_cm.status = "ok"
    /\ Len(ev_true) >= 3
    /\ ev_true[1] > ev_true[2]
    /\ Cardinality(DOMAIN ev_cm.array) >= 2
    /\ ev_cm.array[1][1] # ev_cm.array[2][2]

\* the statement that ran last
Last == Program(nb)[nb_pc - 1]

PredictOps == {"Predict", "PredictProba", "Score"}

\* the run is about to make a predict-type call
AtPredictCall ==
    /\ nb \in Notebooks
    /\ nb_err = ""
    /\ nb_pc <= Len(Program(nb))
    /\ Cur.op \in PredictOps

\* the run has just returned from predict or predict_proba
AfterPredictCall ==
    /\ nb \in Notebooks
    /\ nb_err = ""
    /\ nb_pc > 1
    /\ Last.op \in {"Predict", "PredictProba"}

\* C13: every predict / predict_proba / score call of a notebook is given
\* a table with the column list its estimator was fitted on and returns a
\* label for each row of it, and no run ends in SchemaMismatch; a predict
\* call on a fitted estimator with another column list fails with
\* SchemaMismatch and returns nothing.
C13_PredictSameSchema ==
    /\ AtPredictCall =>
          /\ Cur.obj \in DOMAIN nb_estCols
          /\ nb_cols[Cur.src[1]] = nb_estCols[Cur.obj]
    /\ AfterPredictCall => nb_env[Last.dst[1]] = nb_env[Last.src[1]]
    /\ nb_err # "SchemaMismatch"
    /\ (api_out.status # "none" /\ api_out.call = "predict"
          /\ api_state = "fitted") =>
          IF api_out.cols = api_fitCols
          THEN api_out.status = "ok" /\ Len(api_out.values) = api_out.rows
          ELSE api_out.status = "SchemaMismatch" /\ api_out.values = <<>>

\* the adult run past its first predict, train and test files holding
\* different values in the categorical column
C13_Witness ==
    /\ nb = "adult"
    /\ nb_levels.train # nb_levels.test
    /\ AfterPredictCall
    /\ Last.obj = "sas_dtree"

\* the run is about to call transform on a preprocessor
AtTransformCall ==
    /\ nb \in Notebooks
    /\ nb_err = ""
    /\ nb_pc <= Len(Program(nb))
    /\ Cur.op = "PrepTransform"

\* C14: transform on a preprocessor that was not fitted fails with
\* NotFitted and gives no output, transform on a table with another column
\* count than at fit fails with ShapeMismatch; in the notebooks every
\* transform comes after a fit of the same object on a table with as many
\* columns, so no run ends in either error.
C14_TransformAfterFit ==
    /\ AtTransformCall =>
          /\ Cur.obj \in DOMAIN nb_prep
          /\ Cardinality(nb_cols[Cur.src[1]]) =
                Cardinality(nb_prepCols[Cur.obj])
    /\ nb_err \notin {"NotFitted", "ShapeMismatch"}
    /\ (api_out.status # "none" /\ api_out.call = "transform") =>
          IF api_state # "fitted"
          THEN api_out.status = "NotFitted" /\ api_out.values = <<>>
          ELSE IF Cardinality(api_out.cols) # Cardinality(api_fitCols)
          THEN api_out.status = "ShapeMismatch" /\ api_out.values = <<>>
          ELSE api_out.status = "ok" /\ Len(api_out.values) = api_out.rows

\* the mushroom run back from pca.transform, the scaler's transform
\* behind it
C14_Witness ==
    /\ nb = "mushroom"
    /\ nb_err = ""
    /\ nb_pc > 1
    /\ Last.op = "PrepTransform"
    /\ Last.obj = "pca"
    /\ nb_cols["X_pca"] = PosCols(PcaComponents)

\* C15: every warning filter a notebook installs names one warning
\* category; none is the filter of every category (the base class
\* Warning, what filterwarnings takes when no category is passed).
C15_NoBlanketFilter == "Warning" \notin nb_filters

\* C16: a Dataset the Loader has created stays as it was read (rows,
\* column set, column names) until the run ends.
C16_DatasetUnchanged == \A id \in DOMAIN nb_data : nb_data[id] = nb_read[id]

\* what an estimator object has learnt: nothing, or the rows and columns
\* of its last fit
FittedState(e) ==
    IF e \in DOMAIN nb_est THEN <<"fitted", nb_est[e], nb_estCols[e]>>
    ELSE <<"unfitted">>

\* C17: the fitted state of an estimator object changes only in a call of
\* fit on that object (a constructor call binds its name to a new, unfitted
\* object); predict, predict_proba, score, RFE(estimator),
\* cross_val_score and GridSearchCV leave the estimator they are handed
\* as it was.
C17_FittedOnlyByFit ==
    [][\A e \in (DOMAIN nb_est) \cup (DOMAIN nb_est') :
          FittedState(e)' # FittedState(e) =>
             /\ Cur.obj = e
             /\ \/ Cur.op \in {"Fit", "Search"}
                \/ Cur.op = "Construct" /\ e \notin DOMAIN nb_est']_vars

\* the wine run back from cross_val_score on all rows, the classifier it
\* was handed still fitted on the training rows only
C17_Witness ==
    /\ nb = "wine"
    /\ nb_err = ""
    /\ nb_pc > 1
    /\ Last.op = "CrossVal"
    /\ Last.est \in DOMAIN nb_est
    /\ nb_est[Last.est] = nb_env["X_train"]
    /\ nb_env[Last.src[1]] # nb_env["X_train"]

SplitStmts(name) ==
    {Program(name)[i] : i \in {j \in DOMAIN Program(name) :
                                  Program(name)[j].op = "Split"}}

\* C19: a Splitter call with a fraction f <= 0 or f >= 1 fails with
\* InvalidParameter and returns no train and no test subset (and no call
\* with a fraction inside the interval fails so); every fraction a
\* notebook passes lies strictly between 0 and 1.
C19_FractionInOpenInterval ==
    /\ sp_out.status # "none" =>
          IF sp_f[1] <= 0 \/ sp_f[1] >= sp_f[2]
          THEN /\ sp_out.status = "InvalidParameter"
               /\ sp_out.train = <<>>
               /\ sp_out.test = <<>>
          ELSE sp_out.status # "InvalidParameter"
    /\ \A name \in Notebooks : \A st \in SplitStmts(name) :
          0 < st.f[1] /\ st.f[1] < st.f[2]

\* a call with a fraction of 1 or more, refused
C19_Witness ==
    /\ sp_f[1] >= sp_f[2]
    /\ sp_out.status = "InvalidParameter"

\* the named hyperparameters of p that lie outside their domains
OutOfDomain(p) ==
    {h \in DOMAIN p :
        \/ h = "max_depth" /\ p[h] < 1
        \/ h = "min_samples_leaf" /\ p[h] < 1
        \/ h = "criterion" /\ p[h] \notin {"gini", "entropy"}
        \/ h = "n_estimators" /\ p[h] < 1
        \/ h = "learning_rate" /\ p[h][1] <= 0}

\* the run is about to fit a GridSearchCV
AtSearchCall ==
    /\ nb \in Notebooks
    /\ nb_err = ""
    /\ nb_pc <= Len(Program(nb))
    /\ Cur.op = "Search"

\* C20: a constructor handed a maximum depth < 1, a minimum leaf count
\* < 1, a criterion other than gini / entropy, an ensemble size < 1 or a
\* learning rate <= 0 rejects it, and the rejected object is never fitted
\* or used; every other configuration is accepted.  Every configuration a
\* notebook constructs and every grid point of every search lies inside
\* the domains, so no run ends in InvalidParameter.
C20_ValidatedAtConstruction ==
    /\ api_state \in {"constructed", "fitted"} /\ api_kind = "estimator"
          => OutOfDomain(api_params) = {}
    /\ api_state = "rejected" =>
          /\ OutOfDomain(api_params) # {}
          /\ api_out.call = "construct"
          /\ api_out.status = "InvalidParameter"
          /\ api_fitCols = {}
    /\ \A e \in DOMAIN nb_conf : OutOfDomain(nb_conf[e].params) = {}
    /\ AtSearchCall => \A g \in Cur.grid : OutOfDomain(g) = {}
    /\ nb_err # "InvalidParameter"

\* the mushroom run back from its grid search, the final tree constructed
C20_Witness ==
    /\ nb = "mushroom"
    /\ nb_err = ""
    /\ nb_pc > 1
    /\ Last.op = "Construct"
    /\ Last.line > 505
    /\ "grid" \in DOMAIN nb_est

\* rows of class c in the table split, and in its test subset
ClassCount(c) == Cardinality(RowsOfClass(0..(sp_n - 1), sp_y, c))

TestCount(c) == Cardinality(RowsOfClass(sp_out.test, sp_y, c))

StratIsPartition ==
    /\ sp_out.train \cap sp_out.test = {}
    /\ sp_out.train \cup sp_out.test = 0..(sp_n - 1)

\* C21 as stated: in a stratified split with fraction f = p/q the number
\* of test rows of each class c differs from f times the rows of class c
\* by less than 1, and train and test are disjoint and cover the table.
C21_Original ==
    sp_out.status = "ok" =>
        /\ \A c \in {0, 1} :
              Abs(sp_f[2] * TestCount(c) - sp_f[1] * ClassCount(c)) < sp_f[2]
        /\ StratIsPartition

\* C21 as amended: the number of test rows of each class c differs by
\* less than 1 from (n_test / n) times the rows of class c, where
\* n_test = ceil(f * n) is the size of the test subset; train and test are
\* disjoint and cover the table.
C21_ClassShareOfTestSize ==
    sp_out.status = "ok" =>
        /\ Cardinality(sp_out.test) = CeilDiv(sp_f[1] * sp_n, sp_f[2])
        /\ \A c \in {0, 1} :
              Abs(sp_n * TestCount(c) -
                  Cardinality(sp_out.test) * ClassCount(c)) < sp_n
        /\ StratIsPartition

\* a stratified split of two classes of different size, each with rows on
\* both sides, whose class shares are not exact
C21_Witness ==
    /\ sp_out.status = "ok"
    /\ ClassCount(0) > ClassCount(1)
    /\ \A c \in {0, 1} : TestCount(c) > 0 /\ TestCount(c) < ClassCount(c)
    /\ sp_n * TestCount(0) # Cardinality(sp_out.test) * ClassCount(0)

\* two tables hold the same original rows at the same positions
Aligned(a, b) ==
    nb_env[a] = nb_env[b] /\ nb_ord[a].order = nb_ord[b].order

\* calls that take a feature table and a label vector (or two label
\* vectors) to be read row by row
PairingOps == {"Split", "Fit", "Score", "CrossVal", "Search", "Evaluate"}

\* the run is about to make a call of kind op
Before(op) ==
    /\ nb \in Notebooks
    /\ nb_err = ""
    /\ nb_pc <= Len(Program(nb))
    /\ Cur.op = op

\* the run has just returned from a call of kind op
After(op) ==
    /\ nb \in Notebooks
    /\ nb_err = ""
    /\ nb_pc > 1
    /\ Last.op = op

\* C23: wherever a feature table and a label vector are paired (handed
\* together to a split, fit, score, cross-validation or metric; joined by
\* pd.concat; returned together by a split) they hold the same original
\* rows at the same positions, and every transform returns as many rows
\* as it was given.
C23_RowsAligned ==
    /\ \A op \in PairingOps :
          Before(op) /\ Len(Cur.src) >= 2 => Aligned(Cur.src[1], Cur.src[2])
    /\ Before("Split") /\ Cur.strat # "" => Aligned(Cur.src[1], Cur.strat)
    /\ Before("Derive") /\ Cur.obj = "concat_columns" =>
          LabelsMatch(Cur.src[1], Cur.src[2])
    /\ After("Split") =>
          Aligned(Last.dst[1], Last.dst[3]) /\ Aligned(Last.dst[2], Last.dst[4])
    /\ After("PrepTransform") =>
          Cardinality(nb_env[Last.dst[1]]) = Cardinality(nb_env[Last.src[1]])

\* the wine run about to cross-validate on the tables it joined again
\* from the train and test parts
C23_Witness ==
    /\ nb = "wine"
    /\ Before("CrossVal")
    /\ nb_ord["X"].order[1] = "concat"
    /\ nb_ord["y"].order[1] = "concat"
    /\ nb_env["X"] # nb_env["X_train"]

\* n_features_optimal = 10
FeaturesOptimal == 10

\* the object whose predict produced the table v the last statement read
PredictorOf(v) ==
    LET w == LastWriter(nb_pc - 1, v)
    IN  IF w # 0 /\ Executed[w].op = "Predict" THEN Executed[w].obj ELSE ""

\* C24: the r2 the regression notebook's final-model cell prints is
\* computed from the predictions of the RFE model of that cell, the one
\* with n_features_optimal features, not from a model on all columns.
C24_FinalR2FromRfe ==
    (nb = "regression" /\ After("Evaluate") /\ Last.line = 362) =>
        LET m == PredictorOf(Last.src[2])
        IN  /\ m \in DOMAIN nb_conf
            /\ nb_conf[m].class = "RFE"
            /\ nb_conf[m].params.n_features_to_select = FeaturesOptimal

\* the search that ran last before statement i (0 when none did)
LastSearch(i) ==
    LET ss == {j \in 1..(i - 1) : Executed[j].op = "Search"}
    IN  IF ss = {} THEN 0 ELSE CHOOSE j \in ss : \A k \in ss : k <= j

\* object m is the search object itself (score and best_estimator_ use
\* the refitted winner) or is configured with every value of the winner
UsesWinner(m, search) ==
    \/ m = search
    \/ /\ m \in DOMAIN nb_conf
       /\ \A h \in DOMAIN nb_best[search] :
             /\ h \in DOMAIN nb_conf[m].params
             /\ nb_conf[m].params[h] = nb_best[search][h]

\* C25: after a Hyperparameter Search, the estimator a notebook goes on to
\* evaluate (predict, predict_proba, score) as the optimized / final model
\* has exactly the winning configuration of the search, whichever grid
\* point won.
C25_FinalModelIsWinner ==
    (nb \in Notebooks /\ nb_err = "") =>
        \A i \in 1..Len(Executed) :
            (Executed[i].op \in PredictOps /\ LastSearch(i) # 0) =>
                UsesWinner(Executed[i].obj, Executed[LastSearch(i)].obj)

\* C26: in the banking run the accuracy and confusion-matrix steps go
\* through for every partition the split can return: the lookup
\* y_test[0] finds an element whether or not row 0 of the file is in the
\* test subset, so the run never stops in a KeyError.
C26_LabelLookupDefined ==
    nb = "banking" =>
        /\ Before("Lookup") => LookupOutcome(Cur.src[1], Cur.label) = "ok"
        /\ nb_err # "KeyError"

(***************************************************************************)
(* Claims about the figures drawn from a confusion matrix                 *)
(***************************************************************************)
\* a figure of the given kind has been drawn, or has failed
Drawn(kind) == ev_plot # NoValue /\ ev_plot.kind = kind

\* C27: in the mushroom display the label on tick i names the class that
\* row i and column i of the matrix count, whatever the order of the rows
\* of the dataset.
C27_TickLabelsNameRows ==
    Drawn("display") =>
        /\ ev_plot.status = "ok"
        /\ ArrayFollows(ev_plot.ticks)

\* C28: the plotting loops of the wine notebook never index outside the
\* matrix: it has at least range(6) rows and columns for every test
\* subset and every prediction vector.
C28_LoopsInsideMatrix ==
    Drawn("loop") =>
        /\ Len(ev_cm.array) >= WineTicks
        /\ ev_plot.status # "IndexError"

(***************************************************************************)
(* Claims about the one-hot encoded tables (SpecFrame)                    *)
(***************************************************************************)
\* the statement of line 705 has run
Reindexed == fr_line > 705

\* the columns get_dummies gave the test table before it was re-indexed
TestOwnColumns == Range(GetDummies(Drop(test_data, {"target"})).columns)

TrainColumns == Range(X_train_encoded.columns)

\* C29: after the reindex the test table has exactly the training columns,
\* in the training order, and as many rows as the test file; a column only
\* the test encoding had is gone, and a column only the training encoding
\* has holds 0 in every row of the test table.
C29_TestTakesTrainColumns ==
    Reindexed =>
        /\ X_test_encoded.columns = X_train_encoded.columns
        /\ Len(X_test_encoded.rows) = Len(test_data.rows)
        /\ \A i \in DOMAIN X_test_encoded.rows :
              DOMAIN X_test_encoded.rows[i] = TrainColumns
        /\ \A c \in TestOwnColumns \ TrainColumns :
              c \notin Range(X_test_encoded.columns)
        /\ \A c \in TrainColumns \ TestOwnColumns :
              \A i \in DOMAIN X_test_encoded.rows :
                 X_test_encoded.rows[i][c] = 0

\* a re-indexed test table that lost a column of its own and gained one
C29_Witness ==
    /\ Reindexed
    /\ TestOwnColumns \ TrainColumns # {}
    /\ TrainColumns \ TestOwnColumns # {}
    /\ Len(X_test_encoded.rows) = MaxFrameRows
====
